---- MODULE Spec2Model ----
(***************************************************************************)
(* A model of the log-data-analyzer page component (Index), its dataset    *)
(* controls and the key lookup of the chart / statistics panels.           *)
(*                                                                         *)
(* Text is modelled as a sequence of one-character strings, so that        *)
(* split, trim, startsWith, indexOf and the key concatenation do what the  *)
(* JavaScript string methods do.  A number-or-null value is a tuple: <<>>   *)
(* is null / NaN, <<m, e>> is the decimal m * 10^e.  The local time zone   *)
(* is taken to be UTC without daylight saving.                             *)
(***************************************************************************)
EXTENDS Integers, Sequences, FiniteSets, TLC

(***************************************************************************)
(* Strings                                                                 *)
(***************************************************************************)
Chars(s) == [i \in 1..Len(s) |-> SubSeq(s, i, i)]

WhiteSpace == {" ", "\t", "\r", "\n"}

Digits == {"0", "1", "2", "3", "4", "5", "6", "7", "8", "9"}

DigitVal(c) ==
  CASE c = "0" -> 0 [] c = "1" -> 1 [] c = "2" -> 2 [] c = "3" -> 3
    [] c = "4" -> 4 [] c = "5" -> 5 [] c = "6" -> 6 [] c = "7" -> 7
    [] c = "8" -> 8 [] c = "9" -> 9

LowerCaseChar(c) ==
  CASE c = "C" -> "c" [] c = "S" -> "s" [] c = "V" -> "v" [] c = "T" -> "t"
    [] c = "X" -> "x" [] c = "L" -> "l" [] OTHER -> c

toLowerCase(s) == [i \in 1..Len(s) |-> LowerCaseChar(s[i])]

\* String.prototype.startsWith
startsWith(s, p) == Len(p) <= Len(s) /\ SubSeq(s, 1, Len(p)) = p

\* String.prototype.endsWith
endsWith(s, p) == Len(p) <= Len(s) /\ SubSeq(s, Len(s) - Len(p) + 1, Len(s)) = p

\* String.prototype.indexOf for a one-character needle, 0-based, -1 if absent
indexOf(s, c) ==
  IF \E i \in 1..Len(s) : s[i] = c
    THEN (CHOOSE i \in 1..Len(s) : s[i] = c /\ \A j \in 1..(i - 1) : s[j] # c) - 1
    ELSE -1

\* String.prototype.includes for a one-character needle
includes(s, c) == \E i \in 1..Len(s) : s[i] = c

\* String.prototype.substring(from) and substring(from, to), 0-based
substringFrom(s, from) == SubSeq(s, from + 1, Len(s))

substring(s, from, to) == SubSeq(s, from + 1, to)

\* String.prototype.trim
trim(s) ==
  LET keep == {i \in 1..Len(s) : s[i] \notin WhiteSpace}
  IN  IF keep = {} THEN <<>>
      ELSE SubSeq(s, CHOOSE i \in keep : \A j \in keep : i <= j,
                     CHOOSE i \in keep : \A j \in keep : i >= j)

\* s.replace(/"/g, '')
removeAll(s, c) == SelectSeq(s, LAMBDA x : x # c)

\* String.prototype.split on any one character of the set seps: the pieces
\* between separators, empty pieces kept ("" splits into one empty piece)
splitOn(s, seps) ==
  LET cuts == {i \in 1..Len(s) : s[i] \in seps}
      n == Cardinality(cuts)
      \* position of the k-th separator, 0 before the first, Len(s)+1 after the last
      cut(k) == IF k = 0 THEN 0
                ELSE IF k = n + 1 THEN Len(s) + 1
                ELSE CHOOSE i \in cuts : Cardinality({j \in cuts : j < i}) = k - 1
  IN  [k \in 1..(n + 1) |-> SubSeq(s, cut(k - 1) + 1, cut(k) - 1)]

split(s, sep) == splitOn(s, {sep})

\* s.split(/\s+/): a run of whitespace is one separator
splitWhitespace(s) ==
  LET starts == {i \in 1..Len(s) : s[i] \in WhiteSpace /\ (i = 1 \/ s[i - 1] \notin WhiteSpace)}
      ends == {i \in 1..Len(s) : s[i] \in WhiteSpace /\ (i = Len(s) \/ s[i + 1] \notin WhiteSpace)}
      n == Cardinality(starts)
      startOf(k) == IF k = n + 1 THEN Len(s) + 1
                    ELSE CHOOSE i \in starts : Cardinality({j \in starts : j < i}) = k - 1
      endOf(k) == IF k = 0 THEN 0
                  ELSE CHOOSE i \in ends : Cardinality({j \in ends : j < i}) = k - 1
  IN  [k \in 1..(n + 1) |-> SubSeq(s, endOf(k - 1) + 1, startOf(k) - 1)]

(***************************************************************************)
(* Numbers.  Operators hand their intermediate results on as parameters.   *)
(***************************************************************************)
\* null, and NaN where the code tests for it, are the empty tuple
Null == <<>>

NaN == <<>>

\* number of leading characters of s that are decimal digits
RECURSIVE digitPrefixLen(_)
digitPrefixLen(s) ==
  IF s # <<>> /\ Head(s) \in Digits THEN 1 + digitPrefixLen(Tail(s)) ELSE 0

\* value of a string of decimal digits
RECURSIVE digitsValue(_)
digitsValue(s) ==
  IF s = <<>> THEN 0 ELSE 10 * digitsValue(SubSeq(s, 1, Len(s) - 1)) + DigitVal(s[Len(s)])

\* s without its leading whitespace (parseInt and parseFloat skip it)
trimStart(s) ==
  LET keep == {i \in 1..Len(s) : s[i] \notin WhiteSpace}
  IN  IF keep = {} THEN <<>> ELSE SubSeq(s, CHOOSE i \in keep : \A j \in keep : i <= j, Len(s))

isNegative(t) == t # <<>> /\ Head(t) = "-"

unsignedPart(t) == IF t # <<>> /\ Head(t) \in {"-", "+"} THEN Tail(t) ELSE t

\* the leading digits of s
digitPrefix(s) == SubSeq(s, 1, digitPrefixLen(s))

signedValue(neg, ds) == IF neg THEN 0 - digitsValue(ds) ELSE digitsValue(ds)

intOrNaN(neg, ds) == IF ds = <<>> THEN NaN ELSE <<signedValue(neg, ds)>>

\* parseInt(s) without radix on decimal input: optional sign, then the longest
\* digit prefix; <<>> (NaN) when there is no digit, else <<n>>
parseInt(s) == intOrNaN(isNegative(trimStart(s)), digitPrefix(unsignedPart(trimStart(s))))

\* the decimal m * 10^e with trailing zeros of m moved into e (0 is <<0, 0>>)
RECURSIVE Decimal(_, _)
Decimal(m, e) ==
  IF m = 0 THEN <<0, 0>>
  ELSE IF m % 10 = 0 THEN Decimal(m \div 10, e + 1)
  ELSE <<m, e>>

\* the value Infinity, written as a decimal no finite literal of the inputs reaches
Infinity == <<1, 999>>

\* the value of an exponent part e[+-]digits at the head of rest, 0 without one
exponentValue(rest) ==
  IF rest # <<>> /\ Head(rest) \in {"e", "E"}
    THEN signedValue(isNegative(Tail(rest)), digitPrefix(unsignedPart(Tail(rest))))
    ELSE 0

\* digits [. digits] [exponent], NaN when neither digit string has a digit
decimalOf(neg, intDigits, fracDigits, rest) ==
  IF Len(intDigits) + Len(fracDigits) = 0 THEN NaN
  ELSE Decimal(signedValue(neg, intDigits \o fracDigits), exponentValue(rest) - Len(fracDigits))

\* the text after the integer digits: a fraction when it starts with '.'
decimalAfterInt(neg, intDigits, afterInt) ==
  IF afterInt # <<>> /\ Head(afterInt) = "."
    THEN decimalOf(neg, intDigits, digitPrefix(Tail(afterInt)),
                   SubSeq(afterInt, 2 + digitPrefixLen(Tail(afterInt)), Len(afterInt)))
    ELSE decimalOf(neg, intDigits, <<>>, afterInt)

parseUnsigned(neg, u) ==
  IF startsWith(u, Chars("Infinity")) THEN (IF neg THEN <<-1, 999>> ELSE Infinity)
  ELSE decimalAfterInt(neg, digitPrefix(u), SubSeq(u, digitPrefixLen(u) + 1, Len(u)))

\* parseFloat(s): optional sign, then Infinity or digits [. digits] [e[+-]digits];
\* NaN when no such prefix exists
parseFloat(s) == parseUnsigned(isNegative(trimStart(s)), unsignedPart(trimStart(s)))

\* a cleaning that leaves the double quotes in
cleanTextKeepsQuotes(value) ==
  trim(IF value # <<>> /\ Head(value) = "=" THEN Tail(value) ELSE value)

\* value.replace(/^=/, '').replace(/"/g, '').trim()
cleanText(value) ==
  trim(removeAll(IF value # <<>> /\ Head(value) = "=" THEN Tail(value) ELSE value, "\""))

\* the rest of cleanValue: null for '', 'null', 'undefined' and for text
\* parseFloat does not read
cleanedValue(cleaned) ==
  IF cleaned = <<>> \/ cleaned = Chars("null") \/ cleaned = Chars("undefined")
    THEN Null
  ELSE parseFloat(cleaned)

cleanValue(value) == cleanedValue(cleanText(value))

(***************************************************************************)
(* Dates.  An instant is <<day, second>>: whole days since 1970-01-01 and  *)
(* the second of that day.  An invalid Date is <<>>.                       *)
(***************************************************************************)
InvalidDate == <<>>

\* days from 1970-01-01 to the civil date y-m-d (m in 1..12), proleptic Gregorian
daysFromCivil(y, m, d) ==
  LET yy == IF m <= 2 THEN y - 1 ELSE y
      yoe == yy - (yy \div 400) * 400
      mp == IF m > 2 THEN m - 3 ELSE m + 9
  IN  (yy \div 400) * 146097
        + yoe * 365 + yoe \div 4 - yoe \div 100
        + (153 * mp + 2) \div 5 + d - 1
        - 719468

timeOfDay(hour, minute, second) == hour * 3600 + minute * 60 + second

\* the instant secs seconds after the start of day days
instant(days, secs) == <<days + (secs \div 86400), secs % 86400>>

\* a year 0..99 given to the Date constructor means 1900 + year
fullYear(year) == IF year >= 0 /\ year <= 99 THEN 1900 + year ELSE year

\* new Date(year, month, day, hour, minute, second): month is 0-based,
\* out-of-range fields carry over (MakeDay, MakeTime); a NaN field gives an
\* invalid Date.  Fields are <<>> (NaN) or <<n>>.
newDate(year, month, day, hour, minute, second) ==
  IF NaN \in {year, month, day, hour, minute, second} THEN InvalidDate
  ELSE instant(daysFromCivil(fullYear(year[1]) + (month[1] \div 12), (month[1] % 12) + 1, 1)
                 + day[1] - 1,
               timeOfDay(hour[1], minute[1], second[1]))

\* the builds differ in what new Date(string) accepts outside the ECMAScript
\* date-time format: "lenient" also reads "YYYY-MM-DD HH:MM:SS" and
\* "MM-DD-YYYY HH:MM:SS" and carries a day of 29..31 over into the next month,
\* "strict" reads only "YYYY-MM-DDTHH:MM:SS" with a day the month has
Engines == {"lenient", "strict"}

daysInMonth(y, m) ==
  daysFromCivil(IF m = 12 THEN y + 1 ELSE y, IF m = 12 THEN 1 ELSE m + 1, 1)
    - daysFromCivil(y, m, 1)

\* s is 19 characters: digits but for '-' at the positions dashes, one of seps at
\* position 11 and ':' at positions 14 and 17
dateShaped(s, dashes, seps) ==
  /\ Len(s) = 19
  /\ \A k \in 1..19 :
       IF k \in dashes THEN s[k] = "-"
       ELSE IF k = 11 THEN s[k] \in seps
       ELSE IF k \in {14, 17} THEN s[k] = ":"
       ELSE s[k] \in Digits

num(s, from, to) == digitsValue(SubSeq(s, from, to))

dateOfFields(year, month, day, hh, mm, ss, standard, engine) ==
  IF ~(month >= 1 /\ month <= 12 /\ day >= 1 /\ day <= 31 /\ hh <= 23 /\ mm <= 59 /\ ss <= 59)
    THEN InvalidDate
  ELSE IF engine = "strict" /\ ~(standard /\ day <= daysInMonth(year, month))
    THEN InvalidDate
  ELSE <<daysFromCivil(year, month, 1) + day - 1, timeOfDay(hh, mm, ss)>>

\* new Date(text) on the shapes the inputs take; any other text is an invalid Date
dateParse(s, engine) ==
  IF dateShaped(s, {5, 8}, {" ", "T"})
    THEN dateOfFields(num(s, 1, 4), num(s, 6, 7), num(s, 9, 10),
                      num(s, 12, 13), num(s, 15, 16), num(s, 18, 19), s[11] = "T", engine)
  ELSE IF dateShaped(s, {3, 6}, {" "})
    THEN dateOfFields(num(s, 7, 10), num(s, 1, 2), num(s, 4, 5),
                      num(s, 12, 13), num(s, 15, 16), num(s, 18, 19), FALSE, engine)
  ELSE InvalidDate

\* x || 0 on a parsed integer: NaN and 0 both give 0
orZero(x) == IF x = NaN THEN <<0>> ELSE x

\* parseInt(text) - 1
monthIndex(x) == IF x = NaN THEN NaN ELSE <<x[1] - 1>>

\* timestampStr.replace(/^"?/, '').replace(/"?$/, '')
stripEndQuote(q) == IF q # <<>> /\ q[Len(q)] = "\"" THEN SubSeq(q, 1, Len(q) - 1) ELSE q

stripQuotes(t) == stripEndQuote(IF t # <<>> /\ Head(t) = "\"" THEN Tail(t) ELSE t)

\* the Date of the "D/M/Y H.M[.S]" fields, null when it is invalid
legacyDate(dateParts, timeParts) ==
  IF Len(dateParts) # 3 THEN Null
  ELSE IF Len(timeParts) < 2 THEN Null
  ELSE newDate(parseInt(dateParts[3]), monthIndex(parseInt(dateParts[2])),
               parseInt(dateParts[1]),
               orZero(parseInt(timeParts[1])), orZero(parseInt(timeParts[2])),
               IF Len(timeParts) >= 3 THEN orZero(parseInt(timeParts[3])) ELSE <<0>>)

\* the fallback of parseTimestamp: exactly two whitespace-separated parts
legacyTimestamp(parts) ==
  IF Len(parts) # 2 THEN Null
  ELSE legacyDate(splitOn(parts[1], {"/", "-"}), splitOn(parts[2], {".", ":"}))

isoTimestamp(cleanTimestamp, engine) ==
  IF includes(cleanTimestamp, "-") /\ Len(cleanTimestamp) >= 19
    THEN dateParse(cleanTimestamp, engine) ELSE InvalidDate

firstValid(isoDate, legacy) == IF isoDate # InvalidDate THEN isoDate ELSE legacy

parseCleanTimestamp(cleanTimestamp, engine) ==
  firstValid(isoTimestamp(cleanTimestamp, engine),
             legacyTimestamp(splitWhitespace(cleanTimestamp)))

\* parseTimestamp: the text less one leading and one trailing '"', trimmed; read
\* by new Date(text) when it has a '-' and 19 or more characters, else (or when
\* that is invalid) as "D/M/Y H.M[.S]" with '/' or '-' and '.' or ':'
parseTimestamp(timestampStr, engine) ==
  parseCleanTimestamp(trim(stripQuotes(timestampStr)), engine)

(***************************************************************************)
(* parseDataFile: the pure steps                                           *)
(***************************************************************************)
colorPalette ==
  << "#3B82F6", "#EF4444", "#10B981", "#F59E0B", "#8B5CF6",
     "#F97316", "#06B6D4", "#84CC16", "#EC4899", "#6B7280" >>

CHUNK_SIZE == 200

ErrEmptyFile == "File must have at least a header row and one data row"

ErrNoVariables == "File must have at least timestamp and one variable column"

ErrNoValidRows == "No valid data rows found"

ErrReadFailed == "Failed to read file"

ErrExcelEmpty == "Excel file must have at least a header row and one data row"

ErrExcelReadFailed == "Failed to read Excel file"

Min(a, b) == IF a <= b THEN a ELSE b

\* s without its trailing whitespace
trimEnd(s) ==
  LET keep == {i \in 1..Len(s) : s[i] \notin WhiteSpace}
  IN  IF keep = {} THEN <<>> ELSE SubSeq(s, 1, CHOOSE i \in keep : \A j \in keep : i >= j)

\* fileContent.trim().split('\n').filter(line => line.trim()).  The text is given
\* as its '\n'-separated lines; trimming the text trims the start of its first
\* non-blank line and the end of its last one.
fileLines(fileContent) ==
  LET kept == SelectSeq(fileContent, LAMBDA line : trim(line) # <<>>)
      n == Len(kept)
  IN  [k \in 1..n |->
        LET a == IF k = 1 THEN trimStart(kept[k]) ELSE kept[k]
        IN  IF k = n THEN trimEnd(a) ELSE a]

\* a test that lets a file of a header line alone pass
tooFewLinesHeaderPasses(lines) == Len(lines) < 1

\* the test that rejects a file without a data line
tooFewLines(lines) == Len(lines) < 2

\* comma first, then tab, then semicolon
detectDelimiter(firstLine) ==
  IF Len(split(firstLine, ",")) < 2
    THEN (IF Len(split(firstLine, "\t")) < 2 THEN ";" ELSE "\t")
    ELSE ","

\* line.split(delimiter).map(part => part.trim())
splitTrim(line, delimiter) ==
  LET parts == split(line, delimiter)
  IN  [k \in 1..Len(parts) |-> trim(parts[k])]

\* the variables object with an empty series under every header name
emptyVariables(headers) == [h \in {headers[k] : k \in 1..Len(headers)} |-> <<>>]

\* a push that fills a missing field with the number 0
pointValueZeroFill(values, index) ==
  IF index <= Len(values) THEN cleanValue(values[index]) ELSE <<0, 0>>

\* the value pushed for the header at position index (1-based) of a valid row
pointValue(values, index) ==
  IF index <= Len(values) THEN cleanValue(values[index]) ELSE Null

\* headers.forEach((header, index) => variables[header].push(...)), from position
\* index on
RECURSIVE pushValues(_, _, _, _, _)
pushValues(vars, headers, values, datetime, index) ==
  IF index > Len(headers) THEN vars
  ELSE pushValues(
         [vars EXCEPT ![headers[index]] =
            Append(@, [datetime |-> datetime, value |-> pointValue(values, index)])],
         headers, values, datetime, index + 1)

\* a row with a timestamp field: counted invalid or valid, a valid one pushed;
\* st is [variables, validRows, invalidRows]
processRow(st, datetime, values, headers) ==
  IF datetime = Null THEN [st EXCEPT !.invalidRows = @ + 1]
  ELSE [st EXCEPT !.validRows = @ + 1,
                  !.variables = pushValues(@, headers, values, datetime, 1)]

processParts(st, parts, headers, engine) ==
  IF Len(parts) < 2 THEN st
  ELSE processRow(st, parseTimestamp(parts[1], engine), Tail(parts), headers)

processTrimmed(st, line, delimiter, headers, engine) ==
  IF line = <<>> THEN st
  ELSE processParts(st, splitTrim(line, delimiter), headers, engine)

\* the body of the row loop for one line
processLine(st, rawLine, delimiter, headers, engine) ==
  processTrimmed(st, trim(rawLine), delimiter, headers, engine)

\* for (i = from; i < to; i++) over lines, rows numbered from 0 as in the code.
\* The rows are taken in order; the range is halved, and the first half's
\* result is a value before the second half starts, to keep the evaluation shallow.
RECURSIVE processRows(_, _, _, _, _, _, _)
processRows(st, lines, from, to, delimiter, headers, engine) ==
  IF from >= to THEN st
  ELSE IF to = from + 1 THEN processLine(st, lines[from + 1], delimiter, headers, engine)
  ELSE CHOOSE result \in
         {processRows(firstHalf, lines, (from + to) \div 2, to, delimiter, headers, engine) :
            firstHalf \in {processRows(st, lines, from, (from + to) \div 2,
                                       delimiter, headers, engine)}} : TRUE

\* A progress value is a fraction <<numerator, denominator>>, denominator > 0:
\* the quotients and sums of the code without the rounding of doubles
Frac(n) == <<n, 1>>

\* a < b and a <= b for fractions that are not negative: the whole parts first,
\* then the rests, so that no product leaves the range of the integers
FracLess(a, b) ==
  \/ a[1] \div a[2] < b[1] \div b[2]
  \/ /\ a[1] \div a[2] = b[1] \div b[2]
     /\ (a[1] % a[2]) * b[2] < (b[1] % b[2]) * a[2]

FracLeq(a, b) == ~FracLess(b, a)

FracPlus(a, n) == <<a[1] + n * a[2], a[2]>>

\* a chunk progress of 5 + (processedRows / totalRows) * 100 without the cap
chunkProgressUncapped(processedRows, totalRows) ==
  <<5 * totalRows + processedRows * 100, totalRows>>

\* Math.min(5 + (processedRows / totalRows) * 90, 95)
chunkProgress(processedRows, totalRows) ==
  LET raw == <<5 * totalRows + processedRows * 90, totalRows>>
  IN  IF FracLess(Frac(95), raw) THEN Frac(95) ELSE raw

\* getNextColor reads colorPalette[colorIndex % colorPalette.length]; the caller
\* advances the cursor by one
getNextColor(colorIndex) == colorPalette[(colorIndex % Len(colorPalette)) + 1]

\* a coloring that starts every file at the first palette entry
RECURSIVE assignColorsFromZero(_, _, _, _)
assignColorsFromZero(colors, headers, index, cursor) ==
  IF index > Len(headers) THEN colors
  ELSE assignColorsFromZero(
         [h \in DOMAIN colors \cup {headers[index]} |->
            IF h = headers[index] THEN getNextColor(index - 1) ELSE colors[h]],
         headers, index + 1, cursor)

\* headers.forEach(header => colors[header] = getNextColor()), from position
\* index on, the cursor being at cursor
RECURSIVE assignColors(_, _, _, _)
assignColors(colors, headers, index, cursor) ==
  IF index > Len(headers) THEN colors
  ELSE assignColors(
         [h \in DOMAIN colors \cup {headers[index]} |->
            IF h = headers[index] THEN getNextColor(cursor) ELSE colors[h]],
         headers, index + 1, cursor + 1)

\* the empty object {}
EmptyObject == [k \in {} |-> Null]

(***************************************************************************)
(* parseExcelFile and the progress shown by handleFileUpload.  A workbook  *)
(* is given as the rows sheet_to_json makes of its first sheet, every cell *)
(* as the text Array.prototype.join makes of it.                           *)
(***************************************************************************)
\* file.name.toLowerCase().endsWith('.xlsx') || ... endsWith('.xls')
isExcel(fileName) ==
  endsWith(toLowerCase(fileName), Chars(".xlsx")) \/ endsWith(toLowerCase(fileName), Chars(".xls"))

\* row.join('\t'), from the cell at position index on
RECURSIVE joinTab(_, _)
joinTab(row, index) ==
  IF index > Len(row) THEN <<>>
  ELSE IF index = Len(row) THEN row[index]
  ELSE row[index] \o <<"\t">> \o joinTab(row, index + 1)

\* jsonData.map(row => row.join('\t')).join('\n'), as its lines
csvContent(jsonData) == [r \in 1..Len(jsonData) |-> joinTab(jsonData[r], 1)]

\* a progress mapped as if the second half of the range began at 0
parseProgressFromZero(progress) == <<progress[1], 2 * progress[2]>>

\* parseProgress: 50 + (progress / 2)
parseProgress(progress) == <<100 * progress[2] + progress[1], 2 * progress[2]>>

\* baseProgress = (i / totalFiles) * 100
baseProgress(index, totalFiles) == <<100 * index, totalFiles>>

\* baseProgress + (fileProgressStep * progress / 100) * 0.9
adjustedProgress(index, totalFiles, progress) ==
  <<1000 * index * progress[2] + 9 * progress[1], 10 * totalFiles * progress[2]>>

\* baseProgress + fileProgressStep * 0.95
configuringProgress(index, totalFiles) == <<100 * index + 95, totalFiles>>

\* baseProgress + fileProgressStep
doneProgress(index, totalFiles) == <<100 * index + 100, totalFiles>>

\* the loading texts; '' is NoText
NoText == [text |-> "", fileName |-> <<>>]

readingText(fileName) ==
  [text |-> IF isExcel(fileName) THEN "Processing Excel file" ELSE "Reading", fileName |-> fileName]

(***************************************************************************)
(* Objects whose key order matters (datasets) are sequences of             *)
(* [key, value] in property order: a new key goes last, an assigned        *)
(* existing key keeps its place.  The keys of the inputs are not array     *)
(* indices, which JavaScript would list first.                             *)
(***************************************************************************)
objectKeys(obj) == [k \in 1..Len(obj) |-> obj[k].key]

hasKey(obj, key) == \E k \in 1..Len(obj) : obj[k].key = key

getValue(obj, key) == obj[CHOOSE k \in 1..Len(obj) : obj[k].key = key].value

\* { ...obj, [key]: value }
setKey(obj, key, value) ==
  IF hasKey(obj, key)
    THEN [k \in 1..Len(obj) |-> IF obj[k].key = key THEN [key |-> key, value |-> value] ELSE obj[k]]
    ELSE Append(obj, [key |-> key, value |-> value])

\* const { [key]: removed, ...rest } = obj
withoutKey(obj, key) == SelectSeq(obj, LAMBDA e : e.key # key)

\* the set of elements of a sequence
Range(seq) == {seq[k] : k \in 1..Len(seq)}

(***************************************************************************)
(* Keys                                                                    *)
(***************************************************************************)
Extensions == {Chars(".csv"), Chars(".txt"), Chars(".xlsx"), Chars(".xls")}

\* fileName.replace(/\.(csv|txt|xlsx|xls)$/i, '')
getCleanFileName(fileName) ==
  LET hits == {e \in Extensions : endsWith(toLowerCase(fileName), e)}
      \* ".xlsx" and ".xls" cannot both end the same name, so at most one matches
      ext == CHOOSE e \in hits : TRUE
  IN  IF hits = {} THEN fileName ELSE SubSeq(fileName, 1, Len(fileName) - Len(ext))

\* `${cleanFileName}_${header}`
variableId(cleanFileName, header) == cleanFileName \o <<"_">> \o header

\* key.startsWith(`${fileName}_`)
hasDatasetPrefix(key, fileName) == startsWith(key, fileName \o <<"_">>)

\* the chart's and the statistics panel's lookup: the first dataset key, in
\* Object.entries order, that the variable id starts with; <<>> when none does
findMatchingDatasetKey(datasetsObj, varId) ==
  LET keys == objectKeys(datasetsObj)
      hits == {k \in 1..Len(keys) : hasDatasetPrefix(varId, keys[k])}
  IN  IF hits = {} THEN <<>>
      ELSE <<keys[CHOOSE k \in hits : \A j \in hits : k <= j]>>

\* variableId.substring(matchingDatasetKey.length + 1)
lookupVariableName(varId, matchingDatasetKey) ==
  substringFrom(varId, Len(matchingDatasetKey) + 1)

(***************************************************************************)
(* Arithmetic on parsed values and instants.  A value is the decimal       *)
(* <<m, e>>; sums, differences and comparisons are exact, a quotient is    *)
(* kept as the pair of its dividend and divisor (the rounding of doubles   *)
(* and their largest finite value are left out).  Infinity and -Infinity   *)
(* are values, and NaN is what they add up to.                             *)
(***************************************************************************)
RECURSIVE Pow10(_)
Pow10(n) == IF n <= 0 THEN 1 ELSE 10 * Pow10(n - 1)

\* the mantissa of a at the exponent e <= a[2]
scaled(a, e) == a[1] * Pow10(a[2] - e)

isInfinite(a) == a \in {Infinity, <<-1, 999>>}

\* -a
negated(a) == IF a = NaN THEN NaN ELSE <<0 - a[1], a[2]>>

\* a < b: false when either is NaN
numLess(a, b) ==
  IF a = NaN \/ b = NaN THEN FALSE
  ELSE IF isInfinite(a) \/ isInfinite(b) THEN a # b /\ (a = <<-1, 999>> \/ b = Infinity)
  ELSE scaled(a, Min(a[2], b[2])) < scaled(b, Min(a[2], b[2]))

\* a + b: NaN for Infinity + -Infinity
numPlus(a, b) ==
  IF a = NaN \/ b = NaN THEN NaN
  ELSE IF isInfinite(a) THEN (IF isInfinite(b) /\ b # a THEN NaN ELSE a)
  ELSE IF isInfinite(b) THEN b
  ELSE Decimal(scaled(a, Min(a[2], b[2])) + scaled(b, Min(a[2], b[2])), Min(a[2], b[2]))

\* a - b
numMinus(a, b) == numPlus(a, negated(b))

\* a / n
quotient(a, n) == [dividend |-> a, divisor |-> n]

\* Math.min(...values) and Math.max(...values) of a non-empty sequence
mathMin(values) == CHOOSE v \in Range(values) : \A w \in Range(values) : ~numLess(w, v)

mathMax(values) == CHOOSE v \in Range(values) : \A w \in Range(values) : ~numLess(v, w)

\* values.reduce((a, b) => a + b, 0)
RECURSIVE sumOf(_)
sumOf(values) ==
  IF values = <<>> THEN <<0, 0>>
  ELSE numPlus(sumOf(SubSeq(values, 1, Len(values) - 1)), values[Len(values)])

\* [...values].sort((a, b) => a - b): ascending, equal values in their order
sortAscending(values) ==
  [p \in 1..Len(values) |->
     values[CHOOSE k \in 1..Len(values) :
              Cardinality({j \in 1..Len(values) :
                             \/ numLess(values[j], values[k])
                             \/ (~numLess(values[k], values[j]) /\ j < k)}) = p - 1]]

\* date.getTime(): milliseconds since 1970-01-01T00:00:00, the time zone being UTC
getTime(datetime) == (datetime[1] * 86400 + datetime[2]) * 1000

\* new Date(timestamp) for a timestamp of whole seconds
dateOfTime(timestamp) == <<(timestamp \div 1000) \div 86400, (timestamp \div 1000) % 86400>>

\* the civil date <<year, month, day>> of the day days after 1970-01-01
civilFromDays(days) ==
  LET z == days + 719468
      era == z \div 146097
      doe == z - era * 146097
      yoe == (doe - doe \div 1460 + doe \div 36524 - doe \div 146096) \div 365
      doy == doe - (365 * yoe + yoe \div 4 - yoe \div 100)
      mp == (5 * doy + 2) \div 153
  IN  << yoe + era * 400 + (IF mp < 10 THEN 0 ELSE 1),
         IF mp < 10 THEN mp + 3 ELSE mp - 9,
         doy - (153 * mp + 2) \div 5 + 1 >>

DigitChar(d) == CHOOSE c \in Digits : DigitVal(c) = d

\* the decimal digits of n >= 0
RECURSIVE digitsOf(_)
digitsOf(n) == IF n < 10 THEN <<DigitChar(n)>> ELSE Append(digitsOf(n \div 10), DigitChar(n % 10))

\* String(n) for an integer n
intToString(n) == IF n < 0 THEN <<"-">> \o digitsOf(0 - n) ELSE digitsOf(n)

\* n in two digits at least
twoDigits(n) == IF n < 10 THEN <<"0">> \o digitsOf(n) ELSE digitsOf(n)

zeros(n) == [k \in 1..n |-> "0"]

\* the digits ds of a mantissa at the exponent e, in positional notation
positional(ds, e) ==
  IF e >= 0 THEN ds \o zeros(e)
  ELSE IF Len(ds) > 0 - e
    THEN SubSeq(ds, 1, Len(ds) + e) \o <<".">> \o SubSeq(ds, Len(ds) + e + 1, Len(ds))
  ELSE <<"0", ".">> \o zeros(0 - e - Len(ds)) \o ds

\* value.toString() of a number in the range written without an exponent
numberToString(value) ==
  IF value = Infinity THEN Chars("Infinity")
  ELSE IF value = <<-1, 999>> THEN Chars("-Infinity")
  ELSE IF value[1] < 0 THEN <<"-">> \o positional(digitsOf(0 - value[1]), value[2])
  ELSE positional(digitsOf(value[1]), value[2])

\* the UTF-16 code unit of a character of a number's string
charCode(c) == IF c = "-" THEN 45 ELSE IF c = "." THEN 46 ELSE 48 + DigitVal(c)

\* a < b for strings: the comparison of code units Array.prototype.sort makes
\* without a comparator
stringLess(a, b) ==
  \E k \in 1..(Min(Len(a), Len(b)) + 1) :
    /\ SubSeq(a, 1, k - 1) = SubSeq(b, 1, k - 1)
    /\ IF k > Len(a) THEN k <= Len(b)
       ELSE k <= Len(b) /\ charCode(a[k]) < charCode(b[k])

(***************************************************************************)
(* Statistics of the chart's selection and of the statistics panel         *)
(***************************************************************************)
\* the label without a leading 'deviceData.'
cleanLabel(label) ==
  IF startsWith(label, Chars("deviceData.")) THEN substringFrom(label, Len(Chars("deviceData.")))
  ELSE label

\* a filter that leaves out a point at the end of the range
inSelectionOpenEnd(point, startTime, endTime) ==
  getTime(point.datetime) >= startTime /\ getTime(point.datetime) < endTime /\ point.value # Null

\* time >= startTime && time <= endTime && point.value !== null
inSelection(point, startTime, endTime) ==
  getTime(point.datetime) >= startTime /\ getTime(point.datetime) <= endTime /\ point.value # Null

filteredData(variableData, startTime, endTime) ==
  SelectSeq(variableData, LAMBDA point : inSelection(point, startTime, endTime))

valuesOf(points) == [k \in 1..Len(points) |-> points[k].value]

\* the SelectionStats of a variable with the values of its filtered points
selectionRecord(varId, config, values, startTime, endTime) ==
  [variable |-> varId,
   label |-> cleanLabel(config.label),
   color |-> config.color,
   min |-> mathMin(values),
   max |-> mathMax(values),
   avg |-> quotient(sumOf(values), Len(values)),
   sum |-> sumOf(values),
   count |-> Len(values),
   startTime |-> dateOfTime(startTime),
   endTime |-> dateOfTime(endTime)]

\* what the selection pushes for a variable with filtered points: nothing when
\* none is left
selectionOfFiltered(varId, config, filtered, startTime, endTime) ==
  IF filtered = <<>> THEN <<>>
  ELSE <<selectionRecord(varId, config, valuesOf(filtered), startTime, endTime)>>

\* the same for a variable whose dataset has been found
selectionOfDataset(varId, dataset, variableName, configs, startTime, endTime) ==
  IF variableName \notin DOMAIN dataset.variables \/ varId \notin DOMAIN configs THEN <<>>
  ELSE selectionOfFiltered(varId, configs[varId],
                           filteredData(dataset.variables[variableName], startTime, endTime),
                           startTime, endTime)

\* the body of selectedVariables.forEach in calculateSelectionStats
selectionOfVariable(varId, matching, datasetsObj, configs, startTime, endTime) ==
  IF matching = <<>> THEN <<>>
  ELSE selectionOfDataset(varId, getValue(datasetsObj, matching[1]),
                          lookupVariableName(varId, matching[1]), configs,
                          startTime, endTime)

\* calculateSelectionStats(startTime, endTime), from the selected variable at
\* position index on
RECURSIVE calculateSelectionStats(_, _, _, _, _, _)
calculateSelectionStats(datasetsObj, configs, selected, startTime, endTime, index) ==
  IF index > Len(selected) THEN <<>>
  ELSE selectionOfVariable(selected[index], findMatchingDatasetKey(datasetsObj, selected[index]),
                           datasetsObj, configs, startTime, endTime)
         \o calculateSelectionStats(datasetsObj, configs, selected, startTime, endTime, index + 1)

\* variableData.filter(d => d.value !== null).map(d => d.value)
nonNullValues(variableData) == valuesOf(SelectSeq(variableData, LAMBDA d : d.value # Null))

\* the median of the sorted values
medianOf(sortedValues) ==
  IF Len(sortedValues) % 2 = 0
    THEN quotient(numPlus(sortedValues[Len(sortedValues) \div 2],
                          sortedValues[(Len(sortedValues) \div 2) + 1]), 2)
    ELSE sortedValues[(Len(sortedValues) \div 2) + 1]

\* the stats object of calculateStats (without stdDev, a square root), null
\* when no value is left
statsOfValues(values) ==
  IF values = <<>> THEN Null
  ELSE <<[min |-> mathMin(values),
          max |-> mathMax(values),
          avg |-> quotient(sumOf(values), Len(values)),
          median |-> medianOf(sortAscending(values)),
          count |-> Len(values),
          range |-> numMinus(mathMax(values), mathMin(values))]>>

statsOfDataset(varId, dataset, variableName, configs) ==
  IF varId \notin DOMAIN configs \/ variableName \notin DOMAIN dataset.variables THEN Null
  ELSE statsOfValues(nonNullValues(dataset.variables[variableName]))

statsOfMatching(varId, matching, datasetsObj, configs) ==
  IF matching = <<>> THEN Null
  ELSE statsOfDataset(varId, getValue(datasetsObj, matching[1]),
                      lookupVariableName(varId, matching[1]), configs)

\* calculateStats(varId): Null or <<stats>>
calculateStats(varId, datasetsObj, configs) ==
  statsOfMatching(varId, findMatchingDatasetKey(datasetsObj, varId), datasetsObj, configs)

(***************************************************************************)
(* exportData                                                              *)
(***************************************************************************)
\* the series exportData reads for a variable id cut at its first '_'
exportSeriesAt(datasetsObj, varId, underscoreIndex) ==
  IF underscoreIndex = -1 THEN <<>>
  ELSE IF ~hasKey(datasetsObj, substring(varId, 0, underscoreIndex)) THEN <<>>
  ELSE IF substringFrom(varId, underscoreIndex + 1)
            \notin DOMAIN getValue(datasetsObj, substring(varId, 0, underscoreIndex)).variables
    THEN <<>>
  ELSE getValue(datasetsObj, substring(varId, 0, underscoreIndex))
         .variables[substringFrom(varId, underscoreIndex + 1)]

exportSeries(datasetsObj, varId) == exportSeriesAt(datasetsObj, varId, indexOf(varId, "_"))

timesOf(points) == {getTime(points[k].datetime) : k \in 1..Len(points)}

\* the Set allTimestamps
allTimestamps(datasetsObj, selected) ==
  UNION {timesOf(exportSeries(datasetsObj, selected[k])) : k \in 1..Len(selected)}

\* the order of Array.prototype.sort without a comparator: by String(number)
defaultLess(a, b) == stringLess(intToString(a), intToString(b))

\* Array.from(allTimestamps).sort(): the order does not depend on the order of
\* insertion, the strings of distinct numbers being distinct
sortedTimestamps(timestamps) ==
  [p \in 1..Cardinality(timestamps) |->
     CHOOSE t \in timestamps :
       Cardinality({u \in timestamps : defaultLess(u, t)}) = p - 1]

\* date.toLocaleDateString('en-GB'): DD/MM/YYYY
toLocaleDateString(date) ==
  twoDigits(civilFromDays(date[1])[3]) \o <<"/">> \o twoDigits(civilFromDays(date[1])[2])
    \o <<"/">> \o digitsOf(civilFromDays(date[1])[1])

\* date.toLocaleTimeString('en-GB', { hour: '2-digit', minute: '2-digit' }): HH:MM
toLocaleTimeString(date) ==
  twoDigits(date[2] \div 3600) \o <<":">> \o twoDigits((date[2] % 3600) \div 60)

\* dataPoint?.value?.toString() || '' for the first point found, if any
cellOfPoints(found) ==
  IF found = <<>> THEN <<>>
  ELSE IF found[1].value = Null THEN <<>>
  ELSE numberToString(found[1].value)

\* the cell of a variable id in the row of timestamp
exportCell(datasetsObj, varId, timestamp) ==
  cellOfPoints(SelectSeq(exportSeries(datasetsObj, varId),
                         LAMBDA point : getTime(point.datetime) = timestamp))

\* the selected ids that get a cell: those with a '_'
exportColumns(selected) == SelectSeq(selected, LAMBDA varId : indexOf(varId, "_") # -1)

\* a row of the csv; timestamp is the instant the row is made for
exportRow(datasetsObj, columns, timestamp) ==
  [timestamp |-> timestamp,
   date |-> toLocaleDateString(dateOfTime(timestamp)),
   time |-> toLocaleTimeString(dateOfTime(timestamp)),
   cells |-> [k \in 1..Len(columns) |-> exportCell(datasetsObj, columns[k], timestamp)]]

\* variableConfigs[varId]?.label || varId
exportLabel(configs, varId) ==
  IF varId \in DOMAIN configs /\ configs[varId].label # <<>> THEN configs[varId].label ELSE varId

exportRowsOf(datasetsObj, columns, sorted) ==
  [k \in 1..Len(sorted) |-> exportRow(datasetsObj, columns, sorted[k])]

\* csvData: the header line, then a row per timestamp
csvData(datasetsObj, configs, selected) ==
  <<[headers |-> <<Chars("Date"), Chars("Time")>>
                   \o [k \in 1..Len(selected) |-> exportLabel(configs, selected[k])]]>>
    \o exportRowsOf(datasetsObj, exportColumns(selected),
                    sortedTimestamps(allTimestamps(datasetsObj, selected)))

(***************************************************************************)
(* Input files                                                             *)
(***************************************************************************)
MaxRows == 2

BigRows == 401

MaxUploads == 2

MaxBatch == 2

MaxSelected == 2

MaxMinute == 3

\* how many times the fullscreen chart has been created when the mouse is released
MaxCharts == 2

\* MouseEvent.button of a press: the main button, the secondary one
MouseButtons == {0, 2}

\* the instants the mouse is pressed at: one the scale gives as 0, the first
\* and the last of the others
PressTimes == {0, 60000, 60000 * MaxMinute}

\* the instants the mouse is moved to during a drag
RangeTimes == {60000 * k : k \in 0..MaxMinute}

File(name, content) == [name |-> Chars(name), content |-> content]

\* a workbook whose first sheet has the rows that the lines have as
\* comma-separated cells
Workbook(name, sheetLines) ==
  [name |-> Chars(name), content |-> [r \in 1..Len(sheetLines) |-> split(sheetLines[r], ",")]]

\* row number k (from 1) of the session's two-chunk file: one valid row, then
\* lines of one field
longRow(k) == IF k = 1 THEN Chars("01/01/1970 00.03,4") ELSE Chars("x")

\* the files of the session specification: two whose clean names are "a", one of
\* them a workbook with a variable name that holds the separator, one "a_b" that takes two
\* chunks, one without a valid row, one with as many columns as the palette
\* has colors
SessionFiles ==
  { File("a.csv", <<Chars("ts,x"), Chars("01/01/1970 00.01,1"), Chars("01/01/1970 00.02,0.5")>>),
    Workbook("a.xlsx", <<Chars("ts,b_x,y"), Chars("01/01/1970 00.01,2,Infinity"),
                         Chars("01/01/1970 00.02,,-Infinity")>>),
    [name |-> Chars("a_b.CSV"),
     content |-> <<Chars("ts,x")>> \o [k \in 1..(CHUNK_SIZE + 1) |-> longRow(k)]],
    File("c.csv", <<Chars("ts,x"), Chars("bad,1")>>),
    File("w.txt", <<Chars("ts,x,x,x,x,x,x,x,x,x,x"), Chars("01/01/1970 00.04,3,1,2")>>) }

Batches == UNION {[1..n -> SessionFiles] : n \in 1..MaxBatch}

\* the lines the generated files of the parser specification are made of
HeaderLines == {Chars("ts,A,B"), Chars("ts,A,A,B"), Chars("ts,A")}

RowLines ==
  { Chars("01/01/1970 00.01,1,2"),   \* a full row
    Chars("01/01/1970 00.02,3"),     \* a ragged row: no field for B
    Chars("bad,1,2"),                \* no timestamp
    Chars("x"),                      \* one field only
    Chars("  ") }                    \* a blank line

RowSeqs == UNION {[1..n -> RowLines] : n \in 0..MaxRows}

\* row number k (from 1) of the long file: full, ragged, no timestamp, in turn
bigRow(k) ==
  IF k % 3 = 1 THEN Chars("01/01/1970 00.01,1,2")
  ELSE IF k % 3 = 2 THEN Chars("01/01/1970 00.02,3")
  ELSE Chars("bad,1,2")

ParseFiles ==
  {[name |-> Chars("log.csv"), content |-> <<h>> \o rows] : h \in HeaderLines, rows \in RowSeqs}
  \cup
  { [name |-> Chars("big.csv"), content |-> <<Chars("ts,A,B")>> \o [k \in 1..BigRows |-> bigRow(k)]],
    File("tab.txt", <<Chars("ts\tA"), Chars("05/03/2024 14.30\t=\"70.8\"")>>),
    File("semi.txt", <<Chars("ts;A;B"), Chars("2024-03-05 14:30:00;0;abc")>>),
    File("one.csv", <<Chars("ts"), Chars("05/03/2024 14.30")>>),
    File("roll.csv", <<Chars("ts,A"), Chars("31/02/2024 10.00,1"), Chars("01/13/2024 10.00,2"),
                       Chars("01/01/2024 25.61,3")>>),
    File("vals.csv", <<Chars("ts,A,B,C,D,E,F,G,H,I"),
                       Chars("01/01/1970 00.01,=\"70.8\",0,abc,null,undefined,,-1.5e2,12abc,\"=5\"")>>),
    File("count.csv", <<Chars("ts,A"), Chars("01/01/1970 00.01.00.00,1"), Chars("01/01/1970,2"),
                        Chars("01/1970 00.01,3"), Chars("01/01/1970 00,4"),
                        Chars("01/01/1970 00.01 x,5")>>),
    File("empty.csv", <<>>),
    Workbook("long.xlsx", <<Chars("ts,A")>> \o [k \in 1..(CHUNK_SIZE + 1) |-> longRow(k)]),
    Workbook("row.xlsx", <<Chars("ts,A")>>),
    Workbook("blank.xlsx", <<Chars("ts,A"), Chars("")>>),
    Workbook("novars.xls", <<Chars("ts"), Chars("01/01/1970 00.01")>>),
    Workbook("bad.XLSX", <<Chars("ts,A"), Chars("bad,1")>>),
    File("lead.csv", <<Chars(" "), Chars("\tts;A"), Chars("05/03/2024 14.30;1"), Chars("")>>) }

(***************************************************************************)
(* State                                                                   *)
(***************************************************************************)
VARIABLES
  datasets,             \* useState datasets: cleaned file name -> Dataset, in key order
  variableConfigs,      \* useState variableConfigs: variable id -> VariableConfig
  selectedVariables,    \* useState selectedVariables: variable ids, in order
  isLoading,            \* useState isLoading
  loadingProgress,      \* useState loadingProgress
  loadingText,          \* useState loadingText
  colorIndex,           \* the colorIndex binding of the first render, the one the
                        \* memoised parseDataFile draws colors from
  firstRender,          \* no state has been set yet: the handlers on screen are
                        \* those of the first render
  engine,               \* the build's new Date(text)
  files,                \* event.target.files of the running handleFileUpload
  i,                    \* its loop index
  pc,                   \* where handleFileUpload (and the parse it awaits) stands
  successCount,
  errorCount,
  lines,                \* locals of the running parseDataFile
  delimiter,
  headers,
  variables,
  validRows,
  invalidRows,
  lastReportedProgress,
  startRow,
  reported,             \* the values passed to onProgress by the running parse
  excelReported,        \* the values passed to onProgress by the running parseExcelFile
  parsedData,           \* the Dataset the parse resolved with, <<>> before
  error,                \* the message of the error the parse or the read threw
  uploads,              \* files handed to handleFileUpload so far
  lastOp,               \* the handler or step that ran last
  isDraggingRef,        \* the refs of the chart's drag selection; a ref that holds
  selectionStartRef,    \* a number x is <<x>>, one that holds null is <<>>
  selectionEndRef,
  produced              \* what that step has computed for the user: the csv of an
                        \* export, the stats of a selection or of the statistics panel

sessionVars == <<datasets, variableConfigs, selectedVariables, isLoading, colorIndex, firstRender>>

batchVars == <<files, i, successCount, errorCount, uploads>>

parseVars == <<lines, delimiter, headers, variables, validRows, invalidRows,
               lastReportedProgress, startRow, reported, excelReported, parsedData, error>>

loadingVars == <<loadingProgress, loadingText>>

dragVars == <<isDraggingRef, selectionStartRef, selectionEndRef>>

vars == <<datasets, variableConfigs, selectedVariables, isLoading, loadingProgress, loadingText,
          colorIndex, firstRender, engine, files, i, pc, successCount, errorCount, lines,
          delimiter, headers, variables, validRows, invalidRows, lastReportedProgress,
          startRow, reported, excelReported, parsedData, error, uploads, lastOp,
          isDraggingRef, selectionStartRef, selectionEndRef, produced>>

Op(name) == [op |-> name, fileName |-> <<>>]

\* a step that computes nothing for the user
Nothing == [kind |-> "none", value |-> <<>>, range |-> <<>>, calls |-> 0]

\* the refs of the drag selection when no drag is under way
NoDrag == [isDragging |-> FALSE, selectionStart |-> Null, selectionEnd |-> Null]

\* the locals of parseDataFile before it runs and after its result is consumed
NoParse ==
  /\ lines = <<>>
  /\ delimiter = ","
  /\ headers = <<>>
  /\ variables = EmptyObject
  /\ validRows = 0
  /\ invalidRows = 0
  /\ lastReportedProgress = Frac(0)
  /\ startRow = 0
  /\ reported = <<>>
  /\ excelReported = <<>>
  /\ parsedData = <<>>
  /\ error = ""

Init ==
  /\ datasets = <<>>
  /\ variableConfigs = EmptyObject
  /\ selectedVariables = <<>>
  /\ isLoading = FALSE
  /\ loadingProgress = Frac(0)
  /\ loadingText = NoText
  /\ colorIndex = 0
  /\ firstRender = TRUE
  /\ engine \in Engines
  /\ files = <<>>
  /\ i = 0
  /\ pc = "idle"
  /\ successCount = 0
  /\ errorCount = 0
  /\ NoParse
  /\ uploads = 0
  /\ lastOp = Op("init")
  /\ isDraggingRef = FALSE
  /\ selectionStartRef = Null
  /\ selectionEndRef = Null
  /\ produced = Nothing

(***************************************************************************)
(* handleFileUpload and the parseDataFile call it awaits.  The handler     *)
(* gives way to other events only where it awaits the FileReader (pc =     *)
(* "reading") or a chunk's timer (pc = "paused"); every other step runs in *)
(* the same task as the step before it.                                    *)
(***************************************************************************)
\* onProgress?.(p)
report(log, p) == Append(log, p)

ClearParse ==
  /\ lines' = <<>>
  /\ delimiter' = ","
  /\ headers' = <<>>
  /\ variables' = EmptyObject
  /\ validRows' = 0
  /\ invalidRows' = 0
  /\ lastReportedProgress' = Frac(0)
  /\ startRow' = 0
  /\ reported' = <<>>
  /\ excelReported' = <<>>
  /\ parsedData' = <<>>
  /\ error' = ""

\* the handler up to the first await of its loop
HandleFileUpload(batch) ==
  /\ pc = "idle"
  /\ ~isLoading
  /\ Len(batch) > 0
  /\ uploads + Len(batch) <= MaxUploads
  /\ isLoading' = TRUE
  /\ loadingProgress' = baseProgress(0, Len(batch))
  /\ loadingText' = readingText(batch[1].name)
  /\ firstRender' = FALSE
  /\ files' = batch
  /\ i' = 0
  /\ successCount' = 0
  /\ errorCount' = 0
  /\ uploads' = uploads + Len(batch)
  /\ pc' = "reading"
  /\ lastOp' = Op("handleFileUpload")
  /\ produced' = Nothing
  /\ UNCHANGED dragVars
  /\ UNCHANGED <<datasets, variableConfigs, selectedVariables, colorIndex, engine>>
  /\ UNCHANGED parseVars

\* reader.onerror: the read promise rejects
FileReadError ==
  /\ pc = "reading"
  /\ error' = IF isExcel(files[i + 1].name) THEN ErrExcelReadFailed ELSE ErrReadFailed
  /\ pc' = "caught"
  /\ lastOp' = Op("readError")
  /\ produced' = Nothing
  /\ UNCHANGED dragVars
  /\ UNCHANGED <<lines, delimiter, headers, variables, validRows, invalidRows,
                 lastReportedProgress, startRow, reported, excelReported, parsedData>>
  /\ UNCHANGED <<sessionVars, loadingVars, batchVars, engine>>

\* parseDataFile from its header checks down to its row loop
ParseHeader(newLines, delim, headerParts) ==
  IF Len(headerParts) < 2
    THEN /\ error' = ErrNoVariables
         /\ pc' = "caught"
         /\ delimiter' = delim
         /\ reported' = report(reported, Frac(2))
         /\ UNCHANGED <<headers, variables, lastReportedProgress, startRow>>
    ELSE /\ delimiter' = delim
         /\ headers' = Tail(headerParts)
         /\ variables' = emptyVariables(Tail(headerParts))
         /\ lastReportedProgress' = Frac(5)
         /\ reported' = report(report(reported, Frac(2)), Frac(5))
         /\ startRow' = 1
         /\ pc' = IF 1 < Len(newLines) THEN "chunk" ELSE "finish"
         /\ error' = error

\* parseDataFile(fileContent, ...) down to its row loop
ParseDataFileCall(fileContent) ==
  \E newLines \in {fileLines(fileContent)} :
    /\ lines' = newLines
    /\ IF tooFewLines(newLines)
         THEN /\ error' = ErrEmptyFile
              /\ pc' = "caught"
              /\ UNCHANGED <<delimiter, headers, variables, lastReportedProgress,
                             startRow, reported>>
         ELSE \E delim \in {detectDelimiter(newLines[1])} :
                ParseHeader(newLines, delim, splitTrim(newLines[1], delim))

\* what the caller of the running parseDataFile or parseExcelFile is told for a
\* progress the parse reports
seenProgress(fileName, progress) ==
  IF isExcel(fileName) THEN parseProgress(progress) ELSE progress

\* the progress callbacks on the values this step has added to reported:
\* parseExcelFile hands them on through parseProgress after the values in before,
\* handleFileUpload shows the last value it is told
ShowProgress(before) ==
  /\ excelReported' =
       IF isExcel(files[i + 1].name)
         THEN before \o [k \in 1..(Len(reported') - Len(reported)) |->
                           parseProgress(reported'[Len(reported) + k])]
         ELSE before
  /\ loadingProgress' =
       IF Len(reported') > Len(reported)
         THEN adjustedProgress(i, Len(files),
                               seenProgress(files[i + 1].name, reported'[Len(reported')]))
       ELSE IF Len(before) > Len(excelReported)
         THEN adjustedProgress(i, Len(files), before[Len(before)])
       ELSE loadingProgress

\* reader.onload of a text file, then parseDataFile down to its row loop
ParseDataFileBegin ==
  /\ pc = "reading"
  /\ ~isExcel(files[i + 1].name)
  /\ ParseDataFileCall(files[i + 1].content)
  /\ ShowProgress(excelReported)
  /\ loadingText' = [text |-> "Parsing", fileName |-> files[i + 1].name]
  /\ lastOp' = Op("parseDataFileBegin")
  /\ produced' = Nothing
  /\ UNCHANGED dragVars
  /\ UNCHANGED <<validRows, invalidRows, parsedData>>
  /\ UNCHANGED <<sessionVars, batchVars, engine>>

\* reader.onload of parseExcelFile: the sheet's rows, the 50 of the conversion,
\* then parseDataFile on the tab-separated text down to its row loop
ParseExcelFileBegin ==
  /\ pc = "reading"
  /\ isExcel(files[i + 1].name)
  /\ IF Len(files[i + 1].content) < 2
       THEN /\ error' = ErrExcelEmpty
            /\ pc' = "caught"
            /\ UNCHANGED <<lines, delimiter, headers, variables, lastReportedProgress,
                           startRow, reported, excelReported, loadingProgress>>
       ELSE /\ ParseDataFileCall(csvContent(files[i + 1].content))
            /\ ShowProgress(<<Frac(50)>>)
  /\ lastOp' = Op("parseExcelFileBegin")
  /\ produced' = Nothing
  /\ UNCHANGED dragVars
  /\ UNCHANGED <<validRows, invalidRows, parsedData, loadingText>>
  /\ UNCHANGED <<sessionVars, batchVars, engine>>

\* the progress report after a chunk: made when it exceeds the last one by
\* more than 1
ReportChunk(newProgress) ==
  IF FracLess(FracPlus(lastReportedProgress, 1), newProgress)
    THEN /\ reported' = report(reported, newProgress)
         /\ lastReportedProgress' = newProgress
    ELSE UNCHANGED <<reported, lastReportedProgress>>

\* a chunk pass that writes the rows parsed so far into datasets
ParseChunkWritesEarly ==
  /\ pc = "chunk"
  /\ \E endRow \in {Min(startRow + CHUNK_SIZE, Len(lines))} :
       /\ \E st \in {processRows([variables |-> variables, validRows |-> validRows,
                                  invalidRows |-> invalidRows],
                                 lines, startRow, endRow, delimiter, headers, engine)} :
            /\ variables' = st.variables
            /\ validRows' = st.validRows
            /\ invalidRows' = st.invalidRows
            /\ datasets' = setKey(datasets, getCleanFileName(files[i + 1].name),
                                  [fileName |-> files[i + 1].name,
                                   headers |-> headers,
                                   variables |-> st.variables,
                                   dataCount |-> st.validRows,
                                   colors |-> EmptyObject])
       /\ ReportChunk(chunkProgress(endRow - 1, Len(lines) - 1))
  /\ ShowProgress(excelReported)
  /\ pc' = IF startRow + CHUNK_SIZE < Len(lines) THEN "paused" ELSE "finish"
  /\ lastOp' = Op("parseChunk")
  /\ produced' = Nothing
  /\ UNCHANGED dragVars
  /\ UNCHANGED <<lines, delimiter, headers, startRow, parsedData, error, loadingText>>
  /\ UNCHANGED <<variableConfigs, selectedVariables, isLoading, colorIndex, firstRender>>
  /\ UNCHANGED <<batchVars, engine>>

\* one pass of the chunk loop, up to its await or to the loop's end
ParseChunk ==
  /\ pc = "chunk"
  /\ \E endRow \in {Min(startRow + CHUNK_SIZE, Len(lines))} :
       /\ \E st \in {processRows([variables |-> variables, validRows |-> validRows,
                                  invalidRows |-> invalidRows],
                                 lines, startRow, endRow, delimiter, headers, engine)} :
            /\ variables' = st.variables
            /\ validRows' = st.validRows
            /\ invalidRows' = st.invalidRows
       /\ ReportChunk(chunkProgress(endRow - 1, Len(lines) - 1))
  /\ ShowProgress(excelReported)
  /\ pc' = IF startRow + CHUNK_SIZE < Len(lines) THEN "paused" ELSE "finish"
  /\ lastOp' = Op("parseChunk")
  /\ produced' = Nothing
  /\ UNCHANGED dragVars
  /\ UNCHANGED <<lines, delimiter, headers, startRow, parsedData, error, loadingText>>
  /\ UNCHANGED <<sessionVars, batchVars, engine>>

\* the chunk's timer fires: startRow += CHUNK_SIZE and the loop goes on
ResumeParse ==
  /\ pc = "paused"
  /\ startRow' = startRow + CHUNK_SIZE
  /\ pc' = "chunk"
  /\ lastOp' = Op("resumeParse")
  /\ produced' = Nothing
  /\ UNCHANGED dragVars
  /\ UNCHANGED <<lines, delimiter, headers, variables, validRows, invalidRows,
                 lastReportedProgress, reported, excelReported, parsedData, error>>
  /\ UNCHANGED <<sessionVars, loadingVars, batchVars, engine>>

\* an end of the parse that draws the colors before it looks at validRows
ParseDataFileEndColorsFirst ==
  /\ pc = "finish"
  /\ IF validRows = 0
       THEN /\ reported' = report(reported, Frac(98))
            /\ error' = ErrNoValidRows
            /\ pc' = "caught"
            /\ colorIndex' = colorIndex + Len(headers)
            /\ UNCHANGED parsedData
       ELSE /\ reported' = report(report(reported, Frac(98)), Frac(100))
            /\ colorIndex' = colorIndex + Len(headers)
            /\ parsedData' = [fileName |-> files[i + 1].name,
                              headers |-> headers,
                              variables |-> variables,
                              dataCount |-> validRows,
                              colors |-> assignColors(EmptyObject, headers, 1, colorIndex)]
            /\ pc' = "register"
            /\ error' = error
  /\ ShowProgress(excelReported)
  /\ lastOp' = Op("parseDataFileEnd")
  /\ produced' = Nothing
  /\ UNCHANGED dragVars
  /\ UNCHANGED <<lines, delimiter, headers, variables, validRows, invalidRows,
                 lastReportedProgress, startRow, loadingText>>
  /\ UNCHANGED <<datasets, variableConfigs, selectedVariables, isLoading, firstRender>>
  /\ UNCHANGED <<batchVars, engine>>

\* parseDataFile after its loop
ParseDataFileEnd ==
  /\ pc = "finish"
  /\ IF validRows = 0
       THEN /\ reported' = report(reported, Frac(98))
            /\ error' = ErrNoValidRows
            /\ pc' = "caught"
            /\ UNCHANGED <<colorIndex, parsedData>>
       ELSE /\ reported' = report(report(reported, Frac(98)), Frac(100))
            /\ colorIndex' = colorIndex + Len(headers)
            /\ parsedData' = [fileName |-> files[i + 1].name,
                              headers |-> headers,
                              variables |-> variables,
                              dataCount |-> validRows,
                              colors |-> assignColors(EmptyObject, headers, 1, colorIndex)]
            /\ pc' = "register"
            /\ error' = error
  /\ ShowProgress(excelReported)
  /\ lastOp' = Op("parseDataFileEnd")
  /\ produced' = Nothing
  /\ UNCHANGED dragVars
  /\ UNCHANGED <<lines, delimiter, headers, variables, validRows, invalidRows,
                 lastReportedProgress, startRow, loadingText>>
  /\ UNCHANGED <<datasets, variableConfigs, selectedVariables, isLoading, firstRender>>
  /\ UNCHANGED <<batchVars, engine>>

\* the VariableConfig objects handleFileUpload builds for a parsed file
newConfigs(cleanFileName, data) ==
  [id \in {variableId(cleanFileName, h) : h \in Range(data.headers)} |->
     LET h == CHOOSE hh \in Range(data.headers) : variableId(cleanFileName, hh) = id
     IN  [enabled |-> FALSE, label |-> h, color |-> data.colors[h]]]

\* { ...prev, ...newer }
spread(prev, newer) ==
  [k \in DOMAIN prev \cup DOMAIN newer |-> IF k \in DOMAIN newer THEN newer[k] ELSE prev[k]]

\* handleFileUpload after the parse has resolved
RegisterDataset ==
  /\ pc = "register"
  /\ \E cleanFileName \in {getCleanFileName(files[i + 1].name)} :
       /\ datasets' = setKey(datasets, cleanFileName, parsedData)
       /\ variableConfigs' = spread(variableConfigs, newConfigs(cleanFileName, parsedData))
  /\ successCount' = successCount + 1
  /\ loadingText' = [text |-> "Configuring", fileName |-> files[i + 1].name]
  /\ loadingProgress' = doneProgress(i, Len(files))
  /\ ClearParse
  /\ pc' = "next"
  /\ lastOp' = Op("registerDataset")
  /\ produced' = Nothing
  /\ UNCHANGED dragVars
  /\ UNCHANGED <<selectedVariables, isLoading, colorIndex, firstRender, engine,
                 files, i, errorCount, uploads>>

\* the catch block of the loop body
CatchError ==
  /\ pc = "caught"
  /\ errorCount' = errorCount + 1
  /\ loadingProgress' = doneProgress(i, Len(files))
  /\ ClearParse
  /\ pc' = "next"
  /\ lastOp' = Op("catchError")
  /\ produced' = Nothing
  /\ UNCHANGED dragVars
  /\ UNCHANGED <<sessionVars, loadingText, engine, files, i, successCount, uploads>>

\* a loop that ends the batch after a file has failed
NextFileStopsOnError ==
  /\ pc = "next"
  /\ IF i + 1 < Len(files) /\ errorCount = 0
       THEN /\ i' = i + 1
            /\ loadingText' = readingText(files[i + 2].name)
            /\ loadingProgress' = baseProgress(i + 1, Len(files))
            /\ pc' = "reading"
            /\ UNCHANGED <<isLoading, files>>
       ELSE /\ i' = 0
            /\ files' = <<>>
            /\ isLoading' = FALSE
            /\ loadingProgress' = Frac(0)
            /\ loadingText' = NoText
            /\ pc' = "idle"
  /\ lastOp' = Op("nextFile")
  /\ produced' = Nothing
  /\ UNCHANGED dragVars
  /\ UNCHANGED <<datasets, variableConfigs, selectedVariables, colorIndex, firstRender,
                 engine, successCount, errorCount, uploads>>
  /\ UNCHANGED parseVars

\* a loop whose handler ends without the reset of the loading state
NextFileKeepsLoading ==
  /\ pc = "next"
  /\ IF i + 1 < Len(files)
       THEN /\ i' = i + 1
            /\ loadingText' = readingText(files[i + 2].name)
            /\ loadingProgress' = baseProgress(i + 1, Len(files))
            /\ pc' = "reading"
            /\ UNCHANGED <<isLoading, files>>
       ELSE /\ i' = 0
            /\ files' = <<>>
            /\ UNCHANGED <<isLoading, loadingProgress, loadingText>>
            /\ pc' = "idle"
  /\ lastOp' = Op("nextFile")
  /\ produced' = Nothing
  /\ UNCHANGED dragVars
  /\ UNCHANGED <<datasets, variableConfigs, selectedVariables, colorIndex, firstRender,
                 engine, successCount, errorCount, uploads>>
  /\ UNCHANGED parseVars

\* i++, then the next file's read or the end of the handler
NextFile ==
  /\ pc = "next"
  /\ IF i + 1 < Len(files)
       THEN /\ i' = i + 1
            /\ loadingText' = readingText(files[i + 2].name)
            /\ loadingProgress' = baseProgress(i + 1, Len(files))
            /\ pc' = "reading"
            /\ UNCHANGED <<isLoading, files>>
       ELSE /\ i' = 0
            /\ files' = <<>>
            /\ isLoading' = FALSE
            /\ loadingProgress' = Frac(0)
            /\ loadingText' = NoText
            /\ pc' = "idle"
  /\ lastOp' = Op("nextFile")
  /\ produced' = Nothing
  /\ UNCHANGED dragVars
  /\ UNCHANGED <<datasets, variableConfigs, selectedVariables, colorIndex, firstRender,
                 engine, successCount, errorCount, uploads>>
  /\ UNCHANGED parseVars

Upload ==
  \/ FileReadError
  \/ ParseDataFileBegin
  \/ ParseExcelFileBegin
  \/ ParseChunk
  \/ ResumeParse
  \/ ParseDataFileEnd
  \/ RegisterDataset
  \/ CatchError
  \/ NextFile

(***************************************************************************)
(* The other handlers.  They run when no task of the upload is running.    *)
(***************************************************************************)
AtRest == pc \in {"idle", "reading", "paused"}

\* colorIndex = 0 in clearAllData assigns the binding of the render whose
\* handler is on screen; parseDataFile keeps the first render's
clearedColorIndex(cursor, first) == IF first THEN 0 ELSE cursor

\* the Clear All button: shown when a dataset exists, disabled while loading
ClearAllData ==
  /\ AtRest
  /\ Len(datasets) > 0
  /\ ~isLoading
  /\ datasets' = <<>>
  /\ variableConfigs' = EmptyObject
  /\ selectedVariables' = <<>>
  /\ colorIndex' = clearedColorIndex(colorIndex, firstRender)
  /\ firstRender' = FALSE
  /\ lastOp' = Op("clearAllData")
  /\ produced' = Nothing
  /\ UNCHANGED dragVars
  /\ UNCHANGED <<isLoading, engine, pc>>
  /\ UNCHANGED <<loadingVars, batchVars, parseVars>>

\* a removal that keeps every variable config
configsWithoutNone(configs, fileName) == configs

\* the variable configs removeDataset keeps
configsWithout(configs, fileName) ==
  [k \in {key \in DOMAIN configs : ~hasDatasetPrefix(key, fileName)} |-> configs[k]]

\* the selected ids removeDataset keeps
selectedWithout(selected, fileName) ==
  SelectSeq(selected, LAMBDA varId : ~hasDatasetPrefix(varId, fileName))

\* the trash button of a listed dataset
RemoveDataset(fileName) ==
  /\ AtRest
  /\ hasKey(datasets, fileName)
  /\ datasets' = withoutKey(datasets, fileName)
  /\ variableConfigs' = configsWithout(variableConfigs, fileName)
  /\ selectedVariables' = selectedWithout(selectedVariables, fileName)
  /\ firstRender' = FALSE
  /\ lastOp' = [op |-> "removeDataset", fileName |-> fileName]
  /\ produced' = Nothing
  /\ UNCHANGED dragVars
  /\ UNCHANGED <<isLoading, colorIndex, engine, pc>>
  /\ UNCHANGED <<loadingVars, batchVars, parseVars>>

\* the variable ids DatasetControls lists: header by header of every dataset,
\* those with a config
listedVariables ==
  {id \in DOMAIN variableConfigs :
     \E k \in 1..Len(datasets) :
        \E h \in Range(datasets[k].value.headers) : id = variableId(datasets[k].key, h)}

\* updateVariableConfig(variableId, { enabled }): the checkbox of a listed variable
UpdateVariableConfig(id) ==
  /\ AtRest
  /\ id \in listedVariables
  /\ \E enabled \in {~variableConfigs[id].enabled} :
       /\ enabled => Len(selectedVariables) < MaxSelected
       /\ variableConfigs' = [variableConfigs EXCEPT ![id].enabled = enabled]
       /\ selectedVariables' =
            IF enabled THEN Append(selectedVariables, id)
            ELSE SelectSeq(selectedVariables, LAMBDA other : other # id)
  /\ firstRender' = FALSE
  /\ lastOp' = Op("updateVariableConfig")
  /\ produced' = Nothing
  /\ UNCHANGED dragVars
  /\ UNCHANGED <<datasets, isLoading, colorIndex, engine, pc>>
  /\ UNCHANGED <<loadingVars, batchVars, parseVars>>

\* newSelected.splice(newSelected.indexOf(varId), 1) when varId is in it
withoutFirst(selected, varId) ==
  IF \E n \in 1..Len(selected) : selected[n] = varId
    THEN SubSeq(selected, 1, indexOf(selected, varId))
           \o SubSeq(selected, indexOf(selected, varId) + 2, Len(selected))
    ELSE selected

\* the body of dataset.headers.forEach in selectAllVariables; st is
\* [updates, newSelected]
selectHeader(st, varId, select) ==
  IF varId \notin DOMAIN st.updates THEN st
  ELSE [updates |-> [st.updates EXCEPT ![varId].enabled = select],
        newSelected |->
          IF ~select THEN withoutFirst(st.newSelected, varId)
          ELSE IF varId \in Range(st.newSelected) THEN st.newSelected
          ELSE Append(st.newSelected, varId)]

\* dataset.headers.forEach(...) from the header at position index on
RECURSIVE selectHeaders(_, _, _, _, _)
selectHeaders(st, fileName, headerNames, select, index) ==
  IF index > Len(headerNames) THEN st
  ELSE selectHeaders(selectHeader(st, variableId(fileName, headerNames[index]), select),
                     fileName, headerNames, select, index + 1)

\* selectAllVariables(fileName, select): the Select All and Clear All buttons of
\* a listed dataset
SelectAllVariables(fileName, select) ==
  /\ AtRest
  /\ hasKey(datasets, fileName)
  /\ \E st \in {selectHeaders([updates |-> variableConfigs, newSelected |-> selectedVariables],
                               fileName, getValue(datasets, fileName).headers, select, 1)} :
       /\ Len(st.newSelected) <= MaxSelected
       /\ variableConfigs' = st.updates
       /\ selectedVariables' = st.newSelected
  /\ firstRender' = FALSE
  /\ lastOp' = Op("selectAllVariables")
  /\ produced' = Nothing
  /\ UNCHANGED dragVars
  /\ UNCHANGED <<datasets, isLoading, colorIndex, engine, pc>>
  /\ UNCHANGED <<loadingVars, batchVars, parseVars>>

(***************************************************************************)
(* What the user is shown: the export, the chart's selection statistics    *)
(* and the statistics panel.  These steps change no state of the session.  *)
(***************************************************************************)
\* the Export button: shown when a dataset exists, disabled while loading
ExportData ==
  /\ AtRest
  /\ Len(datasets) > 0
  /\ ~isLoading
  /\ produced' = IF selectedVariables = <<>> THEN Nothing
                 ELSE [kind |-> "csv",
                       value |-> csvData(datasets, variableConfigs, selectedVariables),
                       range |-> <<>>,
                       calls |-> 0]
  /\ lastOp' = Op("exportData")
  /\ UNCHANGED dragVars
  /\ UNCHANGED <<sessionVars, engine, pc>>
  /\ UNCHANGED <<loadingVars, batchVars, parseVars>>

\* the fullscreen chart and its listeners exist: createChart returns early
\* without a canvas or a selected variable
ChartShown == Len(datasets) > 0 /\ selectedVariables # <<>>

\* handleMouseDown of the fullscreen canvas: a press with ctrl or another
\* button, or where the scale gives a falsy value, starts nothing
HandleMouseDown(ctrlKey, button, dataX) ==
  /\ AtRest
  /\ ChartShown
  /\ ~(ctrlKey \/ button # 0)
  /\ dataX # 0
  /\ isDraggingRef' = TRUE
  /\ selectionStartRef' = <<dataX>>
  /\ selectionEndRef' = <<dataX>>
  /\ lastOp' = Op("handleMouseDown")
  /\ produced' = Nothing
  /\ UNCHANGED <<sessionVars, engine, pc>>
  /\ UNCHANGED <<loadingVars, batchVars, parseVars>>

\* handleMouseMove of the fullscreen canvas
HandleMouseMove(dataX) ==
  /\ AtRest
  /\ ChartShown
  /\ isDraggingRef /\ selectionStartRef # Null
  /\ dataX # 0
  /\ selectionEndRef' = <<dataX>>
  /\ lastOp' = Op("handleMouseMove")
  /\ produced' = Nothing
  /\ UNCHANGED <<isDraggingRef, selectionStartRef>>
  /\ UNCHANGED <<sessionVars, engine, pc>>
  /\ UNCHANGED <<loadingVars, batchVars, parseVars>>

\* what handleMouseUp computes for a drag with the given ends
selectionOfDrag(start, end) ==
  IF end - start > 60000
    THEN [kind |-> "selectionStats",
          value |-> calculateSelectionStats(datasets, variableConfigs, selectedVariables,
                                            start, end, 1),
          range |-> <<start, end>>,
          calls |-> 1]
    ELSE Nothing

\* a handleMouseUp that leaves the refs as they are
handleMouseUpKeepsRefs(ref, shown) ==
  [ref |-> ref,
   shown |-> IF ref.isDragging /\ ref.selectionStart # Null /\ ref.selectionEnd # Null
               THEN LET a == ref.selectionStart[1]
                        b == ref.selectionEnd[1]
                        stats == selectionOfDrag(Min(a, b), IF a < b THEN b ELSE a)
                    IN  IF stats.kind = "selectionStats"
                          THEN [stats EXCEPT !.calls = shown.calls + 1]
                          ELSE shown
               ELSE shown]

\* one run of handleMouseUp on the refs ref, when the runs of this release
\* before it have shown the statistics shown
handleMouseUp(ref, shown) ==
  [ref |-> NoDrag,
   shown |-> IF ref.isDragging /\ ref.selectionStart # Null /\ ref.selectionEnd # Null
               THEN LET a == ref.selectionStart[1]
                        b == ref.selectionEnd[1]
                        stats == selectionOfDrag(Min(a, b), IF a < b THEN b ELSE a)
                    IN  IF stats.kind = "selectionStats"
                          THEN [stats EXCEPT !.calls = shown.calls + 1]
                          ELSE shown
               ELSE shown]

\* the listeners a mouseup event reaches, run one after the other
RECURSIVE mouseUpListeners(_, _, _)
mouseUpListeners(ref, shown, listeners) ==
  IF listeners = 0 THEN [ref |-> ref, shown |-> shown]
  ELSE mouseUpListeners(handleMouseUp(ref, shown).ref, handleMouseUp(ref, shown).shown,
                        listeners - 1)

\* a release of the mouse button: handleMouseUp is a listener of the canvas and
\* of the document, once for every createChart of the fullscreen canvas
MouseUp(charts, onCanvas) ==
  /\ AtRest
  /\ isDraggingRef \/ ChartShown
  /\ \E after \in {mouseUpListeners([isDragging |-> isDraggingRef,
                                      selectionStart |-> selectionStartRef,
                                      selectionEnd |-> selectionEndRef],
                                     Nothing,
                                     IF onCanvas THEN 2 * charts ELSE charts)} :
       /\ isDraggingRef' = after.ref.isDragging
       /\ selectionStartRef' = after.ref.selectionStart
       /\ selectionEndRef' = after.ref.selectionEnd
       /\ produced' = after.shown
  /\ lastOp' = Op("handleMouseUp")
  /\ UNCHANGED <<sessionVars, engine, pc>>
  /\ UNCHANGED <<loadingVars, batchVars, parseVars>>

\* the Clear Selection button of the fullscreen dialog
ClearSelection ==
  /\ AtRest
  /\ ChartShown
  /\ isDraggingRef' = FALSE
  /\ selectionStartRef' = Null
  /\ selectionEndRef' = Null
  /\ lastOp' = Op("clearSelection")
  /\ produced' = Nothing
  /\ UNCHANGED <<sessionVars, engine, pc>>
  /\ UNCHANGED <<loadingVars, batchVars, parseVars>>

\* a render of the statistics panel: calculateStats of every selected variable
StatisticsPanel ==
  /\ AtRest
  /\ Len(datasets) > 0
  /\ selectedVariables # <<>>
  /\ produced' = [kind |-> "statistics",
                  value |-> [k \in 1..Len(selectedVariables) |->
                               calculateStats(selectedVariables[k], datasets, variableConfigs)],
                  range |-> <<>>,
                  calls |-> 0]
  /\ lastOp' = Op("statisticsPanel")
  /\ UNCHANGED dragVars
  /\ UNCHANGED <<sessionVars, engine, pc>>
  /\ UNCHANGED <<loadingVars, batchVars, parseVars>>

Next ==
  \/ ExportData
  \/ \E ctrlKey \in BOOLEAN : \E button \in MouseButtons : \E dataX \in PressTimes :
       HandleMouseDown(ctrlKey, button, dataX)
  \/ \E dataX \in RangeTimes : HandleMouseMove(dataX)
  \/ \E charts \in 1..MaxCharts : \E onCanvas \in BOOLEAN : MouseUp(charts, onCanvas)
  \/ ClearSelection
  \/ StatisticsPanel
  \/ \E batch \in Batches : HandleFileUpload(batch)
  \/ Upload
  \/ ClearAllData
  \/ \E k \in 1..Len(datasets) : RemoveDataset(datasets[k].key)
  \/ \E id \in DOMAIN variableConfigs : UpdateVariableConfig(id)
  \/ \E k \in 1..Len(datasets) : \E select \in BOOLEAN :
       SelectAllVariables(datasets[k].key, select)

Spec == Init /\ [][Next]_vars

\* the parser on its own: one file of ParseFiles handed to handleFileUpload in a
\* fresh session
ParseInit ==
  /\ datasets = <<>>
  /\ variableConfigs = EmptyObject
  /\ selectedVariables = <<>>
  /\ isLoading = TRUE
  /\ colorIndex = 0
  /\ firstRender = FALSE
  /\ engine \in Engines
  /\ \E f \in ParseFiles :
       /\ files = <<f>>
       /\ loadingText = readingText(f.name)
  /\ loadingProgress = baseProgress(0, 1)
  /\ i = 0
  /\ pc = "reading"
  /\ successCount = 0
  /\ errorCount = 0
  /\ NoParse
  /\ uploads = 1
  /\ lastOp = Op("handleFileUpload")
  /\ isDraggingRef = FALSE
  /\ selectionStartRef = Null
  /\ selectionEndRef = Null
  /\ produced = Nothing

ParseSpec == ParseInit /\ [][Upload]_vars

\* where handleFileUpload and the parse it awaits can stand
Positions == {"idle", "reading", "chunk", "paused", "finish", "register", "caught", "next"}

\* a step of a running upload: each of them moves pc, and no other step moves
\* pc away from a value other than "idle"
UploadStep == pc # "idle" /\ pc' \in Positions \ {pc}

\* the session when the event loop delivers every pending event of an upload:
\* the load or error event of a FileReader, the timer between two chunks, the
\* continuation of an awaited promise
LiveSpec == Init /\ [][Next]_vars /\ WF_pc(UploadStep)

(***************************************************************************)
(* Properties                                                              *)
(***************************************************************************)
\* the parse of the current file has resolved with parsedData
ParseSucceeded == pc = "register"

\* the parse of the current file has thrown error
ParseFailed == pc = "caught" /\ error \notin {ErrReadFailed, ErrExcelReadFailed, ErrExcelEmpty}

\* the text parseDataFile is given for the current file, its non-blank lines and
\* the fields of data line r
currentText ==
  IF isExcel(files[i + 1].name) THEN csvContent(files[i + 1].content) ELSE files[i + 1].content

currentLines == fileLines(currentText)

rowParts(r) == splitTrim(trim(currentLines[r + 1]), detectDelimiter(currentLines[1]))

\* the data lines (numbered from 1) that count as valid rows, in order
validRowNumbers ==
  {r \in 1..(Len(currentLines) - 1) :
     Len(rowParts(r)) >= 2 /\ parseTimestamp(rowParts(r)[1], engine) # Null}

\* the positions (from 1) of the header columns named h
columnsOf(h) == {j \in 1..Len(parsedData.headers) : parsedData.headers[j] = h}

\* C1: after parseDataFile succeeds, every variable's series has the same length
\* and the series hold the same instant at every index.
C1_RowAlignment ==
  ParseSucceeded =>
    \A g \in DOMAIN parsedData.variables : \A h \in DOMAIN parsedData.variables :
      /\ Len(parsedData.variables[g]) = Len(parsedData.variables[h])
      /\ \A k \in 1..Min(Len(parsedData.variables[g]), Len(parsedData.variables[h])) :
           parsedData.variables[g][k].datetime = parsedData.variables[h][k].datetime

\* the variable ids handleFileUpload makes for the dataset at position k
keysOfDataset(k) ==
  {variableId(datasets[k].key, h) : h \in Range(datasets[k].value.headers)}

\* how often id occurs in the sequence selected
occurrences(selected, id) == Cardinality({n \in 1..Len(selected) : selected[n] = id})

\* C2: removeDataset(d) leaves the configs and the selected keys of every other
\* registered dataset unchanged, and deletes the configs and selected keys of d.
C2_RemoveExact ==
  [][lastOp'.op = "removeDataset" =>
       \A k \in 1..Len(datasets) :
         \A id \in keysOfDataset(k) :
           IF datasets[k].key = lastOp'.fileName
             THEN id \notin DOMAIN variableConfigs' /\ occurrences(selectedVariables', id) = 0
             ELSE /\ id \in DOMAIN variableConfigs =>
                       id \in DOMAIN variableConfigs' /\ variableConfigs'[id] = variableConfigs[id]
                  /\ occurrences(selectedVariables', id) = occurrences(selectedVariables, id)
    ]_vars

\* C3: registering a parsed dataset keeps every VariableConfig that exists
\* already: its enabled flag, label and color are those of before.
C3_RegisterKeepsConfigs ==
  [][lastOp'.op = "registerDataset" =>
       \A id \in DOMAIN variableConfigs :
         id \in DOMAIN variableConfigs' /\ variableConfigs'[id] = variableConfigs[id]
    ]_vars

\* C4: every successful registration adds one dataset entry and keeps the
\* earlier ones, also when the cleaned name is registered already.
C4_RegisterAddsEntry ==
  [][lastOp'.op = "registerDataset" =>
       /\ Len(datasets') = Len(datasets) + 1
       /\ \A k \in 1..Len(datasets) : datasets[k] \in Range(datasets')
    ]_vars

\* C5: distinct registered (dataset id, variable name) pairs have distinct keys.
C5_KeysInjective ==
  \A k \in 1..Len(datasets) : \A m \in 1..Len(datasets) :
    \A g \in Range(datasets[k].value.headers) : \A h \in Range(datasets[m].value.headers) :
      <<datasets[k].key, g>> # <<datasets[m].key, h>> =>
        variableId(datasets[k].key, g) # variableId(datasets[m].key, h)

\* C6: the lookup of a registered variable's key finds the longest registered
\* dataset id d with key starting d + '_', whatever the registration order.
C6_LongestPrefix ==
  \A k \in 1..Len(datasets) : \A id \in keysOfDataset(k) :
    /\ findMatchingDatasetKey(datasets, id) # <<>>
    /\ \A m \in 1..Len(datasets) :
         hasDatasetPrefix(id, datasets[m].key) =>
           Len(datasets[m].key) <= Len(findMatchingDatasetKey(datasets, id)[1])

\* C7: the values one parseDataFile call reports never decrease, and 100 is
\* reported only as the last value of a parse that has succeeded.
C7_ProgressMonotone ==
  /\ \A k \in 1..(Len(reported) - 1) : FracLeq(reported[k], reported[k + 1])
  /\ \A k \in 1..Len(reported) :
       reported[k][1] = 100 * reported[k][2] => k = Len(reported) /\ ParseSucceeded
  /\ ParseSucceeded => reported[Len(reported)] = Frac(100)

\* a parse of more than two chunks has succeeded, having reported after a chunk
C7_Witness ==
  /\ ParseSucceeded
  /\ Len(currentLines) > 2 * CHUNK_SIZE
  /\ \E k \in 1..Len(reported) : FracLess(Frac(5), reported[k]) /\ FracLess(reported[k], Frac(95))

\* C8: after clearAllData the session is empty and the color cursor is at 0.
C8_ClearResetsAll ==
  lastOp.op = "clearAllData" =>
    /\ datasets = <<>>
    /\ variableConfigs = EmptyObject
    /\ selectedVariables = <<>>
    /\ colorIndex = 0

\* the valid row in data line r has a field for none of the columns named h
missingInRow(h, r) == \A j \in columnsOf(h) : j > Len(rowParts(r)) - 1

\* the points that the valid row in data line r has in the series of h
pointsOfRow(h, r, valid) ==
  ((Cardinality({q \in valid : q < r})) * Cardinality(columnsOf(h)) + 1)
    ..((Cardinality({q \in valid : q <= r})) * Cardinality(columnsOf(h)))

\* C9: every variable has one point per valid row and column of its name; a
\* variable without a field in a valid row has that row's points with the row's
\* instant and the value null.
C9_RaggedRowNull ==
  ParseSucceeded =>
    \A valid \in {validRowNumbers} : \A h \in DOMAIN parsedData.variables :
      /\ Len(parsedData.variables[h]) = Cardinality(valid) * Cardinality(columnsOf(h))
      /\ \A r \in valid :
           missingInRow(h, r) =>
             \A p \in pointsOfRow(h, r, valid) :
               parsedData.variables[h][p] =
                 [datetime |-> parseTimestamp(rowParts(r)[1], engine), value |-> Null]

\* a parse has succeeded on a file with a valid row that lacks a field of some variable
C9_Witness ==
  /\ ParseSucceeded
  /\ \E h \in DOMAIN parsedData.variables : \E r \in validRowNumbers : missingInRow(h, r)

\* the current file is the header line "ts,A" and no data line
HeaderOnly == currentLines = <<Chars("ts,A")>>

\* C10 as claimed: a file of the header "ts,A" and no data row fails with the
\* no-valid-rows error.
C10_HeaderOnlyNoValidRows == (ParseFailed /\ HeaderOnly) => error = ErrNoValidRows

\* C10 as amended: a file of the header "ts,A" and no data row fails with the
\* empty-file error, before any progress is reported.
C10_HeaderOnlyEmptyFile ==
  (pc = "caught" /\ lastOp.op # "readError" /\ HeaderOnly) =>
    error = ErrEmptyFile /\ reported = <<>>

\* the parse of a header-only file has failed
C10_Witness == ParseFailed /\ HeaderOnly /\ error = ErrEmptyFile

\* the number of lines of the file text that are not blank
nonBlankCount(content) == Cardinality({k \in 1..Len(content) : trim(content[k]) # <<>>})

\* parseDataFile has been called on the current file and has not been consumed
ParseCalled ==
  /\ pc \in {"chunk", "paused", "finish", "register", "caught"}
  /\ lastOp.op # "readError"
  /\ error # ErrExcelEmpty

\* C11: on a text of fewer than 2 non-blank lines parseDataFile throws the
\* empty-file error, having reported no progress and returning no Dataset.
C11_FewLinesEmptyFile ==
  (ParseCalled /\ nonBlankCount(currentText) < 2) =>
    /\ pc = "caught"
    /\ error = ErrEmptyFile
    /\ reported = <<>>
    /\ parsedData = <<>>

\* the parse of a text of several lines, fewer than 2 of them non-blank, has failed
C11_Witness ==
  /\ ParseFailed
  /\ Len(currentText) >= 2
  /\ nonBlankCount(currentText) < 2
  /\ error = ErrEmptyFile

\* the steps of a parseDataFile call and of the failure of a file
parseSteps ==
  {"readError", "parseDataFileBegin", "parseExcelFileBegin", "parseChunk", "resumeParse", "parseDataFileEnd",
   "catchError"}

\* C12: a file that fails writes nothing to datasets and variableConfigs, the
\* loop goes on to read the file after it, and a file that parses is registered.
C12_BatchContinues ==
  [][/\ pc = "caught" =>
          pc' = "next" /\ datasets' = datasets /\ variableConfigs' = variableConfigs
     /\ (pc = "next" /\ lastOp.op = "catchError") =>
          /\ datasets' = datasets /\ variableConfigs' = variableConfigs
          /\ i + 1 < Len(files) => (pc' = "reading" /\ i' = i + 1 /\ files' = files)
     /\ pc = "register" =>
          /\ hasKey(datasets', getCleanFileName(files[i + 1].name))
          /\ \A h \in Range(parsedData.headers) :
               variableId(getCleanFileName(files[i + 1].name), h) \in DOMAIN variableConfigs'
    ]_vars

\* in a batch, a file has been registered after an earlier file failed
C12_Witness == lastOp.op = "registerDataset" /\ errorCount >= 1 /\ i >= 1

\* C13: no step of a parse writes datasets or variableConfigs; an entry enters
\* datasets, and a config is made or remade, only in the step that registers the
\* Dataset the parse resolved with.
C13_NoPartialWrites ==
  [][/\ lastOp'.op \in parseSteps =>
          datasets' = datasets /\ variableConfigs' = variableConfigs
     /\ \A k \in 1..Len(datasets') :
          datasets'[k] \notin Range(datasets) =>
            pc = "register" /\ datasets'[k].value = parsedData
     /\ \A id \in DOMAIN variableConfigs' :
          (id \notin DOMAIN variableConfigs
             \/ variableConfigs'[id].color # variableConfigs[id].color) =>
            pc = "register"
    ]_vars

\* a parse stands between two chunks with rows parsed and no entry of its file
C13_Witness ==
  /\ pc = "paused"
  /\ validRows > 0
  /\ ~hasKey(datasets, getCleanFileName(files[i + 1].name))

\* C14: a step that deletes a dataset entry deletes, in the same step, every
\* VariableConfig and every selected key of that dataset.
C14_RemoveAtomic ==
  [][\A k \in 1..Len(datasets) :
       ~hasKey(datasets', datasets[k].key) =>
         \A id \in keysOfDataset(k) :
           id \notin DOMAIN variableConfigs' /\ occurrences(selectedVariables', id) = 0
    ]_vars

\* a dataset has been removed while another one, with a selected variable, stays
C14_Witness ==
  /\ lastOp.op = "removeDataset"
  /\ datasets # <<>>
  /\ selectedVariables # <<>>

\* the series the chart and the statistics panel resolve a variable id to, <<>>
\* when they resolve it to none
resolvedSeries(varId) ==
  IF findMatchingDatasetKey(datasets, varId) = <<>> THEN <<>>
  ELSE IF lookupVariableName(varId, findMatchingDatasetKey(datasets, varId)[1])
            \notin DOMAIN getValue(datasets, findMatchingDatasetKey(datasets, varId)[1]).variables
    THEN <<>>
  ELSE getValue(datasets, findMatchingDatasetKey(datasets, varId)[1])
         .variables[lookupVariableName(varId, findMatchingDatasetKey(datasets, varId)[1])]

\* the positions of the points of series that have a value and an instant in range
pointsInRange(series, range) ==
  {n \in 1..Len(series) :
     /\ series[n].value # Null
     /\ range[1] <= getTime(series[n].datetime)
     /\ getTime(series[n].datetime) <= range[2]}

\* the positions of the points of series that have a value
pointsWithValue(series) == {n \in 1..Len(series) : series[n].value # Null}

\* the records the selection statistics hold for the variable id
recordsOf(stats, varId) == {n \in 1..Len(stats) : stats[n].variable = varId}

\* C15: the statistics of a range hold, for a selected variable, a record
\* with the count, least and greatest value of exactly the points of its series
\* that have a value and an instant in [start, end], and no record when there is
\* no such point; the statistics panel gives null for a variable without a
\* point that has a value, else the count of such points.
C15_RangeStatistics ==
  /\ produced.kind = "selectionStats" =>
       \A k \in 1..Len(selectedVariables) :
         \A series \in {resolvedSeries(selectedVariables[k])} :
           \A used \in {pointsInRange(series, produced.range)} :
             IF used = {}
               THEN recordsOf(produced.value, selectedVariables[k]) = {}
               ELSE /\ Cardinality(recordsOf(produced.value, selectedVariables[k]))
                         = occurrences(selectedVariables, selectedVariables[k])
                    /\ \A n \in recordsOf(produced.value, selectedVariables[k]) :
                         /\ produced.value[n].count = Cardinality(used)
                         /\ \E p \in used : produced.value[n].min = series[p].value
                         /\ \E p \in used : produced.value[n].max = series[p].value
                         /\ \A p \in used :
                              /\ ~numLess(series[p].value, produced.value[n].min)
                              /\ ~numLess(produced.value[n].max, series[p].value)
  /\ produced.kind = "statistics" =>
       \A k \in 1..Len(selectedVariables) :
         \A used \in {pointsWithValue(resolvedSeries(selectedVariables[k]))} :
           IF used = {} THEN produced.value[k] = Null
           ELSE produced.value[k] # Null /\ produced.value[k][1].count = Cardinality(used)

\* a selection has statistics of a variable with a point at an end of the range,
\* and none of a variable whose points all lie outside or have no value
C15_Witness ==
  /\ produced.kind = "selectionStats"
  /\ \E k \in 1..Len(selectedVariables) :
       /\ resolvedSeries(selectedVariables[k]) # <<>>
       /\ pointsInRange(resolvedSeries(selectedVariables[k]), produced.range) = {}
  /\ \E k \in 1..Len(selectedVariables) :
       \E p \in pointsInRange(resolvedSeries(selectedVariables[k]), produced.range) :
         getTime(resolvedSeries(selectedVariables[k])[p].datetime)
           \in {produced.range[1], produced.range[2]}

\* the rows of an exported csv, after its header line
exportedRows == Tail(produced.value)

\* C16: an export has one row per distinct instant of the series of the
\* selected variables, and its rows are in strictly ascending order of instant.
C16_ExportAscending ==
  produced.kind = "csv" =>
    /\ \A k \in 1..(Len(exportedRows) - 1) :
         exportedRows[k].timestamp < exportedRows[k + 1].timestamp
    /\ {exportedRows[k].timestamp : k \in 1..Len(exportedRows)}
         = UNION {timesOf(resolvedSeries(selectedVariables[k])) : k \in 1..Len(selectedVariables)}

\* C17: the headers of a Dataset parseDataFile returns are pairwise distinct.
C17_HeadersDistinct ==
  ParseSucceeded =>
    \A j \in 1..Len(parsedData.headers) : \A k \in 1..Len(parsedData.headers) :
      j # k => parsedData.headers[j] # parsedData.headers[k]

\* text has the shape "D/M/Y H.M[.S]" with fields that are numbers and that are
\* no date of the calendar or no time of the day
impossibleLegacy(text) ==
  LET parts == splitWhitespace(text)
      dateParts == splitOn(parts[1], {"/", "-"})
      timeParts == splitOn(parts[2], {".", ":"})
      fields == [k \in 1..3 |-> parseInt(dateParts[k])]
               \o [k \in 1..Len(timeParts) |-> parseInt(timeParts[k])]
  IN  /\ Len(parts) = 2
      /\ Len(dateParts) = 3
      /\ Len(timeParts) \in {2, 3}
      /\ \A k \in 1..Len(fields) : fields[k] # NaN
      /\ \/ fields[2][1] \notin 1..12
         \/ fields[1][1] \notin 1..daysInMonth(fields[3][1], fields[2][1])
         \/ fields[4][1] \notin 0..23
         \/ fields[5][1] \notin 0..59
         \/ \E k \in 6..Len(fields) : fields[k][1] \notin 0..59

\* C18: a row whose timestamp has the legacy shape and impossible fields is
\* no valid row: a returned Dataset counts no more rows than there are data
\* lines of 2 fields or more with a timestamp that is not impossible.
C18_ImpossibleDateNull ==
  ParseSucceeded =>
    parsedData.dataCount
      <= Cardinality({r \in 1..(Len(currentLines) - 1) :
                        Len(rowParts(r)) >= 2 /\ ~impossibleLegacy(rowParts(r)[1])})

\* the text left of a field: one leading '=' removed, then every double quote,
\* then the white space around it
textLeft(field) ==
  trim(SelectSeq(IF field # <<>> /\ Head(field) = "=" THEN Tail(field) ELSE field,
                 LAMBDA c : c # "\""))

\* text starts, after white space and a sign, with what reads as a number
readsAsNumber(text) ==
  LET u == unsignedPart(trimStart(text))
  IN  \/ u # <<>> /\ Head(u) \in Digits
      \/ Len(u) >= 2 /\ Head(u) = "." /\ u[2] \in Digits
      \/ startsWith(u, Chars("Infinity"))

\* the point made for the field of column j in the valid row of data line r
pointOfField(r, j, valid) ==
  parsedData.variables[parsedData.headers[j]]
    [Cardinality({q \in valid : q < r}) * Cardinality(columnsOf(parsedData.headers[j]))
       + Cardinality({c \in columnsOf(parsedData.headers[j]) : c <= j})]

\* the values cleanValue is to give for fields of the input files
cleanValueExamples ==
  { <<Chars("=\"70.8\""), <<708, -1>>>>, <<Chars("0"), <<0, 0>>>>, <<Chars("abc"), Null>>,
    <<Chars("null"), Null>>, <<Chars("undefined"), Null>>, <<Chars(""), Null>>,
    <<Chars("-1.5e2"), <<-15, 1>>>>, <<Chars("12abc"), <<12, 0>>>>, <<Chars("\"=5\""), Null>>,
    <<Chars("1"), <<1, 0>>>> }

\* C19: the value of a field of a valid row is null exactly when the text left
\* of it is empty, 'null', 'undefined' or does not read as a number, and is the
\* number read otherwise: 70.8 for ="70.8", 0 for 0, null for abc.
C19_CleanValue ==
  ParseSucceeded =>
    \A valid \in {validRowNumbers} : \A r \in valid :
      \A j \in 1..Min(Len(parsedData.headers), Len(rowParts(r)) - 1) :
        /\ pointOfField(r, j, valid).value = Null
             <=> \/ textLeft(rowParts(r)[j + 1]) \in {<<>>, Chars("null"), Chars("undefined")}
                 \/ ~readsAsNumber(textLeft(rowParts(r)[j + 1]))
        /\ \A example \in cleanValueExamples :
             rowParts(r)[j + 1] = example[1] => pointOfField(r, j, valid).value = example[2]

\* a parse has returned the values of the fields ="70.8", 0 and abc
C19_Witness ==
  /\ ParseSucceeded
  /\ \E r \in validRowNumbers :
       \A field \in {Chars("=\"70.8\""), Chars("0"), Chars("abc")} :
         \E j \in 1..(Len(rowParts(r)) - 1) : rowParts(r)[j + 1] = field

\* C20: after the row loop validRows + invalidRows is the number of non-blank
\* data lines.
C20_RowsCounted ==
  pc = "finish" => validRows + invalidRows = Len(lines) - 1

\* the position of the last column named h
lastColumn(headerNames, h) ==
  CHOOSE k \in 1..Len(headerNames) :
    headerNames[k] = h /\ \A j \in (k + 1)..Len(headerNames) : headerNames[j] # h

\* C21: a successful parseDataFile colors its columns in order from one cursor:
\* the column colored as the n-th since the cursor was 0 gets palette entry
\* n mod 10 (a name keeps the color of its last column), the cursor advances by
\* the number of columns, and no other step moves it but to 0.
C21_ColorsRoundRobin ==
  [][IF pc = "finish" /\ pc' = "register"
       THEN /\ colorIndex' = colorIndex + Len(headers)
            /\ \A h \in Range(headers) :
                 parsedData'.colors[h]
                   = colorPalette[((colorIndex + lastColumn(headers, h) - 1) % 10) + 1]
       ELSE colorIndex' \in {colorIndex, 0}
    ]_vars

\* a second file has been colored from where the first file's colors ended, past
\* the end of the palette
C21_Witness ==
  /\ pc = "register"
  /\ colorIndex - Len(parsedData.headers) > 0
  /\ colorIndex > Len(colorPalette)
  /\ \E h \in Range(parsedData.headers) :
       parsedData.colors[h] # colorPalette[((lastColumn(parsedData.headers, h) - 1) % 10) + 1]

\* text is not read by new Date(text) and is not two white-space separated
\* tokens, a date of 3 fields and a time of 2 or 3 fields
tokenCountsOff(text) ==
  LET clean == trim(stripQuotes(text))
      parts == splitWhitespace(clean)
  IN  /\ isoTimestamp(clean, engine) = InvalidDate
      /\ \/ Len(parts) # 2
         \/ Len(splitOn(parts[1], {"/", "-"})) # 3
         \/ Len(splitOn(parts[2], {".", ":"})) \notin {2, 3}

\* C22: a row whose timestamp deviates from the token counts of the legacy
\* shape is no valid row: a returned Dataset counts no more rows than there are
\* data lines of 2 fields or more with a timestamp that does not deviate.
C22_TokenCountsNull ==
  ParseSucceeded =>
    parsedData.dataCount
      <= Cardinality({r \in 1..(Len(currentLines) - 1) :
                        Len(rowParts(r)) >= 2 /\ ~tokenCountsOff(rowParts(r)[1])})

\* the element at position rank (from 0) of values in ascending order
elementAtRank(values, rank) ==
  CHOOSE v \in Range(values) :
    /\ Cardinality({n \in 1..Len(values) : numLess(values[n], v)}) <= rank
    /\ rank < Cardinality({n \in 1..Len(values) : ~numLess(v, values[n])})

\* the values of the points of series that have one
valuesWithValue(series) == valuesOf(SelectSeq(series, LAMBDA point : point.value # Null))

\* C23: the median the statistics panel reports for a variable with N values
\* is the middle element of the values in ascending order when N is odd and the
\* half of the sum of the two middle elements when N is even, and it is not
\* less than the reported min and not greater than the reported max.
C23_Median ==
  produced.kind = "statistics" =>
    \A k \in 1..Len(selectedVariables) :
      produced.value[k] # Null =>
        \A values \in {valuesWithValue(resolvedSeries(selectedVariables[k]))} :
          \A stats \in {produced.value[k][1]} :
            IF Len(values) % 2 = 1
              THEN /\ stats.median = elementAtRank(values, Len(values) \div 2)
                   /\ ~numLess(stats.median, stats.min)
                   /\ ~numLess(stats.max, stats.median)
              ELSE /\ stats.median
                        = quotient(numPlus(elementAtRank(values, (Len(values) \div 2) - 1),
                                           elementAtRank(values, Len(values) \div 2)), 2)
                   /\ stats.median.dividend # NaN
                   /\ ~numLess(stats.median.dividend, numPlus(stats.min, stats.min))
                   /\ ~numLess(numPlus(stats.max, stats.max), stats.median.dividend)

\* the current file is a workbook that parseExcelFile has converted
ExcelConverted == ParseCalled /\ isExcel(files[i + 1].name)

\* C24: the values parseExcelFile passes to its caller never decrease: the
\* first is 50, the one after it for every progress p of the delegated
\* parseDataFile is 50 + p / 2, and 100 is passed only as the last value, when
\* the delegated parse has reported 100; a workbook that is not converted passes none.
C24_ExcelProgress ==
  /\ (pc = "caught" /\ error = ErrExcelEmpty) => excelReported = <<>>
  /\ ExcelConverted =>
       /\ \A k \in 1..(Len(excelReported) - 1) : FracLeq(excelReported[k], excelReported[k + 1])
       /\ Len(excelReported) = Len(reported) + 1
       /\ excelReported[1] = Frac(50)
       /\ \A k \in 1..Len(reported) :
            2 * (excelReported[k + 1][1] * reported[k][2]
                   - 50 * excelReported[k + 1][2] * reported[k][2])
              = reported[k][1] * excelReported[k + 1][2]
       /\ \A k \in 1..Len(excelReported) :
            excelReported[k][1] = 100 * excelReported[k][2] =>
              /\ k = Len(excelReported)
              /\ reported # <<>>
              /\ reported[Len(reported)] = Frac(100)

\* a workbook of two chunks has been parsed, a chunk's progress handed on
C24_Witness ==
  /\ ExcelConverted
  /\ ParseSucceeded
  /\ Len(currentLines) > CHUNK_SIZE
  /\ \E k \in 1..Len(excelReported) :
       FracLess(Frac(53), excelReported[k]) /\ FracLess(excelReported[k], Frac(99))

\* C25: selectedVariables holds every key whose VariableConfig is enabled
\* once, and no other key.
C25_SelectedIsEnabled ==
  \A id \in DOMAIN variableConfigs \cup Range(selectedVariables) :
    occurrences(selectedVariables, id)
      = IF id \in DOMAIN variableConfigs /\ variableConfigs[id].enabled THEN 1 ELSE 0

\* C26: every key of variableConfigs and of selectedVariables is the key of a
\* header of a registered dataset, and every header of every registered dataset
\* has a VariableConfig under its key.
C26_RegistryConsistent ==
  /\ \A id \in DOMAIN variableConfigs \cup Range(selectedVariables) :
       \E k \in 1..Len(datasets) : id \in keysOfDataset(k)
  /\ \A k \in 1..Len(datasets) : \A id \in keysOfDataset(k) : id \in DOMAIN variableConfigs

\* the (dataset id, variable name) exportData reads a key as, <<>> when it
\* finds no series for it
exportResolves(varId) ==
  LET underscoreIndex == indexOf(varId, "_")
      fileName == substring(varId, 0, underscoreIndex)
      variableName == substringFrom(varId, underscoreIndex + 1)
  IN  IF underscoreIndex = -1 \/ ~hasKey(datasets, fileName) THEN <<>>
      ELSE IF variableName \notin DOMAIN getValue(datasets, fileName).variables THEN <<>>
      ELSE <<fileName, variableName>>

\* the (dataset id, variable name) the chart and the statistics panel read a key
\* as, <<>> when they find no series for it
lookupResolves(varId) ==
  LET matching == findMatchingDatasetKey(datasets, varId)
  IN  IF matching = <<>> THEN <<>>
      ELSE IF lookupVariableName(varId, matching[1])
                \notin DOMAIN getValue(datasets, matching[1]).variables THEN <<>>
      ELSE <<matching[1], lookupVariableName(varId, matching[1])>>

\* C27: the export and the lookup of the chart and the statistics panel read
\* every selected key of a registered dataset as the same dataset and variable.
C27_SameResolution ==
  \A k \in 1..Len(datasets) : \A id \in keysOfDataset(k) :
    id \in Range(selectedVariables) => exportResolves(id) = lookupResolves(id)

\* C28: no step of a parseDataFile call but its successful end moves the
\* color cursor: a call that fails leaves the cursor where it was.
C28_FailureKeepsCursor ==
  [][(lastOp'.op \in parseSteps /\ pc' # "register") => colorIndex' = colorIndex]_vars

\* a parse has failed for want of a valid row after an earlier file was colored
C28_Witness ==
  /\ lastOp.op = "parseDataFileEnd"
  /\ pc = "caught"
  /\ error = ErrNoValidRows
  /\ colorIndex > 0

\* the drag under way spans more than a minute
dragSpansMinute ==
  /\ isDraggingRef
  /\ selectionStartRef # Null
  /\ selectionEndRef # Null
  /\ \/ selectionEndRef[1] - selectionStartRef[1] > 60000
     \/ selectionStartRef[1] - selectionEndRef[1] > 60000

\* C29: every release of the mouse leaves the refs of the drag selection idle
\* (isDragging false, start and end null), and its listeners on the canvas and
\* on the document together compute the selection statistics at most once, and
\* only for a drag that spans more than 60000 ms.
C29_ReleaseReturnsToIdle ==
  [][lastOp'.op = "handleMouseUp" =>
       /\ isDraggingRef' = FALSE
       /\ selectionStartRef' = Null
       /\ selectionEndRef' = Null
       /\ produced'.calls <= 1
       /\ produced'.calls = 1 => dragSpansMinute]_vars

\* a release has ended a drag and shown its statistics, computed once
C29_Witness ==
  /\ lastOp.op = "handleMouseUp"
  /\ produced.kind = "selectionStats"
  /\ produced.calls = 1
  /\ ~isDraggingRef

\* the loading state after the handler's last statements
LoadingReset == ~isLoading /\ loadingProgress = Frac(0) /\ loadingText = NoText

\* C30: a batch that has started ends with the loading state reset; until then
\* the files before the current one have each been counted once, as a success
\* or as an error, the loop index moves by one file at a time and goes back to
\* 0 only after the last file, and loadingProgress never decreases, the value
\* shown while a parsed file is configured included.
C30_BatchFinishes ==
  /\ isLoading ~> LoadingReset
  /\ [](isLoading => /\ i < Len(files)
                     /\ successCount + errorCount = IF pc = "next" THEN i + 1 ELSE i)
  /\ [][/\ i' # i => \/ i' = i + 1 /\ isLoading'
                     \/ i' = 0 /\ i + 1 = Len(files) /\ LoadingReset'
        /\ isLoading /\ isLoading' => FracLeq(loadingProgress, loadingProgress')
        /\ pc = "register" =>
             /\ FracLeq(loadingProgress, configuringProgress(i, Len(files)))
             /\ FracLeq(configuringProgress(i, Len(files)), loadingProgress')]_vars

\* a batch of a file that parsed and a file that failed has ended
C30_Witness ==
  /\ lastOp.op = "nextFile"
  /\ LoadingReset
  /\ successCount > 0
  /\ errorCount > 0

====
